---- MODULE Spec2Model ----
(***************************************************************************)
(* Recommendation engine and search/filter compiler of the beauty store    *)
(* backend: the Express handlers over the Product and User collections,    *)
(* each handler taken as one atomic step over the document store.          *)
(*                                                                         *)
(* Numbers that the program keeps as JavaScript floats with decimals       *)
(* (price, averageRating, parseFloat results) are kept in tenths.          *)
(* Text is a tuple of one-character strings.                               *)
(***************************************************************************)
EXTENDS Integers, Sequences, FiniteSets, TLC

VARIABLES catalog, nextPid, users, resp, search, reviews, subs, flights, auth,
          reminders

vars == <<catalog, nextPid, users, resp, search, reviews, subs, flights, auth, reminders>>

----------------------------------------------------------------------------
(* Bounds of the model *)

MaxProducts == 2
NumUsers == 2
MaxPurchases == 2
MaxItems == 1
MaxRanked == 2

(* Constants of the program *)

HybridContentLimit == 20
HybridCollabLimit == 20
HybridPeerLimit == 50
HybridTopK == 3
FallbackCount == 10
ContentLimit == 10
CollabLimit == 10
CollabPeerLimit == 100
CollabTopK == 5

----------------------------------------------------------------------------
(* JavaScript values and helpers *)

(* undefined, told apart from every text; the empty text is <<>> *)
Undefined == <<"undefined">>

Null == [null |-> TRUE]

(* a text or undefined taken as a condition *)
Truthy(v) == v # Undefined /\ v # <<>>

Limit(s, n) == IF Len(s) <= n THEN s ELSE SubSeq(s, 1, n)

Slice(s, n) == IF Len(s) <= n THEN s ELSE SubSeq(s, 1, n)

SeqToSet(s) == {s[i] : i \in 1..Len(s)}

(* ObjectId.prototype.toString: the 24-hex rendering of an id, one string
   per id.  A string a client or the reranker sends either is such a
   rendering or is malformed, and a malformed one fails the cast. *)
ObjectIdStr(n) == <<"oid", n>>

MalformedStr == <<"str", 0>>

IsObjectIdStr(s) == s[1] = "oid"

CastObjectId(s) == s[2]

(* new Set(array): the distinct elements in first-insertion order *)
RECURSIVE NewSetFrom(_, _, _)
NewSetFrom(arr, i, acc) ==
    IF i > Len(arr) THEN acc
    ELSE NewSetFrom(arr, i + 1,
                    IF arr[i] \in SeqToSet(acc) THEN acc ELSE Append(acc, arr[i]))

NewSet(arr) == NewSetFrom(arr, 1, <<>>)

SetHas(set, x) == \E i \in 1..Len(set) : set[i] = x

----------------------------------------------------------------------------
(* Documents *)

HairDry == <<"d", "r", "y">>
HairOily == <<"o", "i", "l", "y">>

BodyOil ==
    [name |-> <<"O", "i", "l">>, category |-> <<"H", "a", "i", "r">>,
     subcategory |-> <<"c", "a", "r", "e">>, description |-> <<"d", "r", "y">>,
     price |-> 100, hairType |-> <<HairDry>>, skinType |-> <<>>,
     ingredients |-> << <<"a", "l", "o", "e">> >>]

BodyGel ==
    [name |-> <<"G", "e", "l">>, category |-> <<"S", "k", "i", "n">>,
     subcategory |-> <<"c", "a", "r", "e">>, description |-> <<"w", "e", "t">>,
     price |-> 300, hairType |-> <<HairOily>>, skinType |-> <<HairOily>>,
     ingredients |-> << <<"o", "i", "l">> >>]

ProductBodies == {BodyOil, BodyGel}

(* new Product({...}).save(): schema defaults for the derived fields *)
NewProduct(id, body) ==
    [id |-> id, createdAt |-> id,
     name |-> body.name, category |-> body.category,
     subcategory |-> body.subcategory, description |-> body.description,
     price |-> body.price, hairType |-> body.hairType,
     skinType |-> body.skinType, ingredients |-> body.ingredients,
     averageRating |-> 0, reviewCount |-> 0, isActive |-> TRUE]

NewUser(id) ==
    [id |-> id, hairType |-> Undefined, purchaseHistory |-> <<>>, cart |-> <<>>]

HairPrefs == {Undefined, HairDry}

CatalogIds(cat) == {cat[i].id : i \in 1..Len(cat)}

(* Product.findById *)
FindById(cat, id) ==
    IF id \in CatalogIds(cat)
    THEN (CHOOSE i \in 1..Len(cat) : cat[i].id = id)
    ELSE 0

(* Product.find({ _id: { $in: ids } }): the documents in store order *)
FindByIds(cat, ids) == SelectSeq(cat, LAMBDA p : p.id \in ids)

(* Product.find({ 'attributes.hairType': h }): array field contains h *)
FindByHairType(cat, h) == SelectSeq(cat, LAMBDA p : h \in SeqToSet(p.hairType))

(* .populate('purchaseHistory.productId'): the referenced document, or
   null when the product has been deleted *)
Populate(cat, history) ==
    [i \in 1..Len(history) |->
        IF history[i].productId \in CatalogIds(cat)
        THEN [productId |-> cat[FindById(cat, history[i].productId)],
              quantity |-> history[i].quantity]
        ELSE [productId |-> Null, quantity |-> history[i].quantity]]

HasNull(populated) == \E i \in 1..Len(populated) : populated[i].productId = Null

TotalPurchases ==
    LET RECURSIVE Sum(_)
        Sum(i) == IF i > Len(users) THEN 0
                  ELSE Len(users[i].purchaseHistory) + Sum(i + 1)
    IN Sum(1)

----------------------------------------------------------------------------
(* Similarity engine *)

(* toString of a populated product document: the rendering of the
   document, which differs for documents of different _id *)
DocToString(doc) == ObjectIdStr(doc.id)

RECURSIVE CommonFrom(_, _, _)
CommonFrom(setA, setB, i) ==
    IF i > Len(setA) THEN 0
    ELSE (IF SetHas(setB, setA[i]) THEN 1 ELSE 0) + CommonFrom(setA, setB, i + 1)

(* forEach over the purchase array instead of the Set of its ids *)
countCommonProductsOverArray(purchasesA, purchasesB) ==
    LET arrA == [i \in 1..Len(purchasesA) |-> DocToString(purchasesA[i].productId)]
        setB == NewSet([i \in 1..Len(purchasesB) |-> DocToString(purchasesB[i].productId)])
    IN CommonFrom(arrA, setB, 1)

countCommonProducts(purchasesA, purchasesB) ==
    LET setA == NewSet([i \in 1..Len(purchasesA) |-> DocToString(purchasesA[i].productId)])
        setB == NewSet([i \in 1..Len(purchasesB) |-> DocToString(purchasesB[i].productId)])
    IN CommonFrom(setA, setB, 1)

(* a sort that puts an element before the equal ones already placed *)
RECURSIVE InsertByScoreUnstable(_, _)
InsertByScoreUnstable(sorted, e) ==
    IF sorted = <<>> THEN <<e>>
    ELSE IF Head(sorted).score > e.score
         THEN <<Head(sorted)>> \o InsertByScoreUnstable(Tail(sorted), e)
         ELSE <<e>> \o sorted

(* Array.prototype.sort((a, b) => b.score - a.score): stable, descending *)
RECURSIVE InsertByScore(_, _)
InsertByScore(sorted, e) ==
    IF sorted = <<>> THEN <<e>>
    ELSE IF Head(sorted).score >= e.score
         THEN <<Head(sorted)>> \o InsertByScore(Tail(sorted), e)
         ELSE <<e>> \o sorted

RECURSIVE SortByScoreFrom(_, _, _)
SortByScoreFrom(arr, i, acc) ==
    IF i > Len(arr) THEN acc
    ELSE SortByScoreFrom(arr, i + 1, InsertByScore(acc, arr[i]))

SortByScore(arr) == SortByScoreFrom(arr, 1, <<>>)

(* User.find({ _id: { $ne: user._id } }).limit(n).populate(...) *)
OtherUsers(cat, us, uid, n) ==
    LET others == Limit(SelectSeq(us, LAMBDA u : u.id # uid), n)
    IN [i \in 1..Len(others) |->
          [id |-> others[i].id,
           purchaseHistory |-> Populate(cat, others[i].purchaseHistory)]]

SimilarityScores(userHistory, otherUsers) ==
    [i \in 1..Len(otherUsers) |->
        [user |-> otherUsers[i],
         score |-> countCommonProducts(userHistory, otherUsers[i].purchaseHistory)]]

TopUsers(scores, k) ==
    LET top == Slice(SortByScore(scores), k)
    IN [i \in 1..Len(top) |-> top[i].user]

----------------------------------------------------------------------------
(* Candidate generator *)

AllPurchases(topUsers) ==
    LET RECURSIVE Cat(_)
        Cat(i) == IF i > Len(topUsers) THEN <<>>
                  ELSE topUsers[i].purchaseHistory \o Cat(i + 1)
    IN Cat(1)

(* every id bought by the top users *)
CollaborativeIdsUnfiltered(userHistory, topUsers) ==
    LET bought == AllPurchases(topUsers)
    IN NewSet([i \in 1..Len(bought) |-> ObjectIdStr(bought[i].productId.id)])

(* the ids bought by the top users and not by the current user *)
CollaborativeIds(userHistory, topUsers) ==
    LET currentUserProducts ==
            NewSet([i \in 1..Len(userHistory) |-> ObjectIdStr(userHistory[i].productId.id)])
        bought == AllPurchases(topUsers)
        prodIds == [i \in 1..Len(bought) |-> ObjectIdStr(bought[i].productId.id)]
    IN NewSet(SelectSeq(prodIds, LAMBDA s : ~SetHas(currentUserProducts, s)))

CastIds(strs) == {CastObjectId(strs[i]) : i \in 1..Len(strs)}

(* Array.from(new Map(all.map(p => [p._id.toString(), p])).values()) *)
RECURSIVE UniqueFrom(_, _, _)
UniqueFrom(all, i, acc) ==
    IF i > Len(all) THEN acc
    ELSE UniqueFrom(all, i + 1,
            IF \E j \in 1..Len(acc) : ObjectIdStr(acc[j].id) = ObjectIdStr(all[i].id)
            THEN [j \in 1..Len(acc) |->
                    IF ObjectIdStr(acc[j].id) = ObjectIdStr(all[i].id) THEN all[i] ELSE acc[j]]
            ELSE Append(acc, all[i]))

(* the concatenation, not passed through the Map *)
UniqueCandidatesConcat(all) == all

UniqueCandidates(all) == UniqueFrom(all, 1, <<>>)

Ids(products) == [i \in 1..Len(products) |-> products[i].id]

----------------------------------------------------------------------------
(* Reranker adapter *)

(* What model.generateContent(prompt) produces: a rejected promise, or a
   text.  A text is a JSON array of strings, some other JSON value or no
   JSON at all, bare or wrapped in a code fence. *)
ServiceFailure == [kind |-> "fail", wrap |-> "none", ids |-> <<>>]

Garbage == [kind |-> "garbage", wrap |-> "none", ids |-> <<>>]

JsonScalar == [kind |-> "scalar", wrap |-> "none", ids |-> <<>>]

JsonArray(wrap, ids) == [kind |-> "array", wrap |-> wrap, ids |-> ids]

TextWraps == {"none", "fence"}

IdStrings(n) == {ObjectIdStr(i) : i \in 1..n} \cup {MalformedStr}

SeqsUpTo(S, n) == UNION {[1..k -> S] : k \in 0..n}

RerankerOutcomes(n, len) ==
    {ServiceFailure, Garbage, JsonScalar}
        \cup {JsonArray(w, ids) : w \in TextWraps, ids \in SeqsUpTo(IdStrings(n), len)}

(* slice(1, 10): the first candidate is lost *)
FallbackIdsFromSecond(uniqueCandidates) ==
    LET first == Slice(uniqueCandidates, FallbackCount)
    IN [i \in 1..(Len(first) - 1) |-> ObjectIdStr(first[i + 1].id)]

(* uniqueCandidates.slice(0, 10).map(p => p._id.toString()) *)
FallbackIds(uniqueCandidates) ==
    LET first == Slice(uniqueCandidates, FallbackCount)
    IN [i \in 1..Len(first) |-> ObjectIdStr(first[i].id)]

(* JSON.parse(text.trim()) returns instead of throwing *)
JsonParses(text) == text.wrap = "none" /\ text.kind \in {"array", "scalar"}

(* rankedProductIds.map(id => found.find(p => p._id.toString() === id))
       .filter(Boolean) *)
SortByRanking(ranked, found) ==
    LET hits == SelectSeq(ranked,
                    LAMBDA s : \E j \in 1..Len(found) : ObjectIdStr(found[j].id) = s)
    IN [i \in 1..Len(hits) |->
          found[CHOOSE j \in 1..Len(found) :
                   /\ ObjectIdStr(found[j].id) = hits[i]
                   /\ \A k \in 1..(j - 1) : ObjectIdStr(found[k].id) # hits[i]]]

----------------------------------------------------------------------------
(* Responses *)

NoText == [kind |-> "none", wrap |-> "none", ids |-> <<>>]

EmptyResp ==
    [op |-> "none", user |-> 0, status |-> 0, products |-> <<>>,
     contentBased |-> <<>>, collaborative |-> <<>>, candidates |-> <<>>,
     topUsers |-> <<>>, scores |-> <<>>, text |-> NoText, ranked |-> <<>>,
     items |-> <<>>, caller |-> 0]

Status(op, uid, code) == [EmptyResp EXCEPT !.op = op, !.user = uid, !.status = code]

UserIds(us) == {us[i].id : i \in 1..Len(us)}

FindUser(us, uid) == us[CHOOSE i \in 1..Len(us) : us[i].id = uid]

(* the part of the hybrid and collaborative handlers that reads the
   histories; a deleted product leaves a null reference and the handler
   ends in its catch block *)
PeerStep(cat, us, uid, peerLimit, k) ==
    LET user == FindUser(us, uid)
        history == Populate(cat, user.purchaseHistory)
        otherUsers == OtherUsers(cat, us, uid, peerLimit)
        throws == \/ HasNull(history)
                  \/ \E i \in 1..Len(otherUsers) : HasNull(otherUsers[i].purchaseHistory)
        similarityScores == SimilarityScores(history, otherUsers)
        topUsers == TopUsers(similarityScores, k)
    IN [throws |-> throws,
        scores |-> IF throws THEN <<>>
                   ELSE [i \in 1..Len(similarityScores) |->
                           [user |-> similarityScores[i].user.id,
                            score |-> similarityScores[i].score]],
        topUsers |-> IF throws THEN <<>> ELSE Ids(topUsers),
        ids |-> IF throws THEN <<>> ELSE CollaborativeIds(history, topUsers)]

(* router.get('/hybrid') *)
HybridResponse(cat, us, uid, text) ==
    IF uid \notin UserIds(us) THEN Status("hybrid", uid, 404)
    ELSE
    LET user == FindUser(us, uid)
        contentBasedProducts ==
            IF Truthy(user.hairType)
            THEN Limit(FindByHairType(cat, user.hairType), HybridContentLimit)
            ELSE <<>>
        peers == PeerStep(cat, us, uid, HybridPeerLimit, HybridTopK)
        collaborativeProducts ==
            Limit(FindByIds(cat, CastIds(peers.ids)), HybridCollabLimit)
        uniqueCandidates == UniqueCandidates(contentBasedProducts \o collaborativeProducts)
        rankedProductIds ==
            IF JsonParses(text) THEN text.ids ELSE FallbackIds(uniqueCandidates)
        partial == [EmptyResp EXCEPT !.op = "hybrid", !.user = uid, !.status = 500,
                        !.contentBased = Ids(contentBasedProducts),
                        !.collaborative = Ids(collaborativeProducts),
                        !.candidates = Ids(uniqueCandidates),
                        !.topUsers = peers.topUsers,
                        !.scores = peers.scores,
                        !.text = text]
    IN IF peers.throws THEN Status("hybrid", uid, 500)
       ELSE IF text.kind = "fail" THEN partial
       ELSE IF JsonParses(text) /\ text.kind # "array" THEN partial
       ELSE IF \E i \in 1..Len(rankedProductIds) : ~IsObjectIdStr(rankedProductIds[i])
            THEN [partial EXCEPT !.ranked = rankedProductIds]
       ELSE LET finalRecommendations == FindByIds(cat, CastIds(rankedProductIds))
            IN [partial EXCEPT !.status = 200, !.ranked = rankedProductIds,
                    !.products = Ids(SortByRanking(rankedProductIds, finalRecommendations))]

(* router.get('/collaborative') and router.get('/collaborative/:userId') *)
CollaborativeResponse(cat, us, uid) ==
    IF uid \notin UserIds(us) THEN Status("collaborative", uid, 404)
    ELSE
    LET peers == PeerStep(cat, us, uid, CollabPeerLimit, CollabTopK)
        recommendedProducts == Limit(FindByIds(cat, CastIds(peers.ids)), CollabLimit)
    IN IF peers.throws THEN Status("collaborative", uid, 500)
       ELSE [EmptyResp EXCEPT !.op = "collaborative", !.user = uid, !.status = 200,
                !.collaborative = Ids(recommendedProducts),
                !.products = Ids(recommendedProducts),
                !.topUsers = peers.topUsers,
                !.scores = peers.scores]

(* the request of a user without hairType answered with the empty list *)
ContentBasedResponseUnchecked(cat, us, uid) ==
    IF uid \notin UserIds(us) THEN Status("content-based", uid, 404)
    ELSE
    LET user == FindUser(us, uid)
        recommendedProducts == Limit(FindByHairType(cat, user.hairType), ContentLimit)
    IN [EmptyResp EXCEPT !.op = "content-based", !.user = uid, !.status = 200,
             !.contentBased = Ids(recommendedProducts),
             !.products = Ids(recommendedProducts)]

(* router.get('/content-based') and router.get('/content-based/:userId') *)
ContentBasedResponse(cat, us, uid) ==
    IF uid \notin UserIds(us) THEN Status("content-based", uid, 404)
    ELSE
    LET user == FindUser(us, uid)
        recommendedProducts == Limit(FindByHairType(cat, user.hairType), ContentLimit)
    IN IF ~Truthy(user.hairType) THEN Status("content-based", uid, 400)
       ELSE [EmptyResp EXCEPT !.op = "content-based", !.user = uid, !.status = 200,
                !.contentBased = Ids(recommendedProducts),
                !.products = Ids(recommendedProducts)]

(* text.match(/\["[^"]+"\]/): a bracketed array of exactly one string, found
   anywhere in a text that holds it; an array of two strings, or of none,
   has no such substring *)
RegexExtract(text) == text.kind = "array" /\ Len(text.ids) = 1

(* router.get('/ai-recommendations') *)
AiResponse(cat, us, uid, text) ==
    IF uid \notin UserIds(us) THEN Status("ai", uid, 404)
    ELSE
    LET user == FindUser(us, uid)
        history == Populate(cat, user.purchaseHistory)
        recommendedProductIds == text.ids
        failed == [EmptyResp EXCEPT !.op = "ai", !.user = uid, !.status = 500,
                                    !.text = text]
    IN IF HasNull(history) THEN Status("ai", uid, 500)
       ELSE IF text.kind = "fail" THEN failed
       ELSE IF ~JsonParses(text) /\ ~RegexExtract(text) THEN failed
       ELSE IF text.kind # "array" THEN failed
       ELSE IF \E i \in 1..Len(recommendedProductIds) :
                  ~IsObjectIdStr(recommendedProductIds[i])
            THEN [failed EXCEPT !.ranked = recommendedProductIds]
       ELSE LET recommendedProducts == FindByIds(cat, CastIds(recommendedProductIds))
            IN [failed EXCEPT !.status = 200, !.ranked = recommendedProductIds,
                    !.products =
                        Ids(SortByRanking(recommendedProductIds, recommendedProducts))]

----------------------------------------------------------------------------
(* JavaScript numbers and text, as the search handler uses them *)

Num(v) == [k |-> "num", v |-> v]

NaN == [k |-> "nan", v |-> 0]

Infinity == [k |-> "inf", v |-> 0]

NoNum == [k |-> "undefined", v |-> 0]

Digits == <<"0", "1", "2", "3", "4", "5", "6", "7", "8", "9">>

IsDigit(c) == \E i \in 1..10 : Digits[i] = c

DigitVal(c) == (CHOOSE i \in 1..10 : Digits[i] = c) - 1

(* the value and the length of the longest prefix of decimal digits *)
RECURSIVE DigitRun(_, _, _)
DigitRun(s, i, acc) ==
    IF i <= Len(s) /\ IsDigit(s[i])
    THEN DigitRun(s, i + 1, [v |-> acc.v * 10 + DigitVal(s[i]), n |-> acc.n + 1])
    ELSE acc

RECURSIVE TrimStart(_)
TrimStart(s) == IF s # <<>> /\ Head(s) = " " THEN TrimStart(Tail(s)) ELSE s

(* parseInt(string): leading blanks, a sign, then the digits up to the
   first other character; NaN when there is no digit *)
ParseInt(str) ==
    LET t == TrimStart(str)
        signed == t # <<>> /\ Head(t) \in {"-", "+"}
        body == IF signed THEN Tail(t) ELSE t
        run == DigitRun(body, 1, [v |-> 0, n |-> 0])
    IN IF run.n = 0 THEN NaN
       ELSE IF signed /\ Head(t) = "-" THEN Num(0 - run.v) ELSE Num(run.v)

(* parseFloat(string), in tenths: digits, then a point and the first
   fraction digit (the test values carry at most one) *)
ParseFloat(str) ==
    LET t == TrimStart(str)
        signed == t # <<>> /\ Head(t) \in {"-", "+"}
        body == IF signed THEN Tail(t) ELSE t
        int == DigitRun(body, 1, [v |-> 0, n |-> 0])
        rest == SubSeq(body, int.n + 1, Len(body))
        frac == IF rest # <<>> /\ Head(rest) = "."
                THEN DigitRun(rest, 2, [v |-> 0, n |-> 0])
                ELSE [v |-> 0, n |-> 0]
        tenth == IF frac.n = 0 THEN 0 ELSE DigitVal(rest[2])
        mag == int.v * 10 + tenth
    IN IF int.n = 0 /\ frac.n = 0 THEN NaN
       ELSE IF signed /\ Head(t) = "-" THEN Num(0 - mag) ELSE Num(mag)

(* Math.floor(a / b) in place of Math.ceil *)
MathFloorDiv(a, b) ==
    IF b.k # "num" THEN NaN
    ELSE IF b.v = 0 THEN (IF a = 0 THEN NaN ELSE Infinity)
    ELSE IF b.v > 0 THEN Num(a \div b.v)
         ELSE Num(0 - (a \div (0 - b.v)) - (IF a % (0 - b.v) = 0 THEN 0 ELSE 1))

(* Math.ceil(a / b) for a count a >= 0 *)
MathCeilDiv(a, b) ==
    IF b.k # "num" THEN NaN
    ELSE IF b.v = 0 THEN (IF a = 0 THEN NaN ELSE Infinity)
    ELSE IF b.v > 0
         THEN Num(IF a % b.v = 0 THEN a \div b.v ELSE (a \div b.v) + 1)
         ELSE Num(0 - (a \div (0 - b.v)))

(* a < b on numbers; false when either is NaN *)
NumLess(a, b) ==
    /\ a.k # "nan" /\ b.k # "nan"
    /\ \/ a.k = "num" /\ b.k = "inf"
       \/ a.k = "num" /\ b.k = "num" /\ a.v < b.v

UpperCase ==
    <<"A", "B", "C", "D", "E", "F", "G", "H", "I", "J", "K", "L", "M",
      "N", "O", "P", "Q", "R", "S", "T", "U", "V", "W", "X", "Y", "Z">>

LowerCase ==
    <<"a", "b", "c", "d", "e", "f", "g", "h", "i", "j", "k", "l", "m",
      "n", "o", "p", "q", "r", "s", "t", "u", "v", "w", "x", "y", "z">>

ToLower(c) ==
    IF \E i \in 1..26 : UpperCase[i] = c
    THEN LowerCase[CHOOSE i \in 1..26 : UpperCase[i] = c]
    ELSE c

LowerStr(str) == [i \in 1..Len(str) |-> ToLower(str[i])]

(* code unit order of the letters: capitals before small letters *)
CharCode(c) ==
    IF \E i \in 1..26 : UpperCase[i] = c
    THEN CHOOSE i \in 1..26 : UpperCase[i] = c
    ELSE IF \E i \in 1..26 : LowerCase[i] = c
         THEN 32 + (CHOOSE i \in 1..26 : LowerCase[i] = c)
         ELSE 0

RECURSIVE StrLess(_, _)
StrLess(a, b) ==
    IF b = <<>> THEN FALSE
    ELSE IF a = <<>> THEN TRUE
    ELSE IF CharCode(Head(a)) # CharCode(Head(b))
         THEN CharCode(Head(a)) < CharCode(Head(b))
         ELSE StrLess(Tail(a), Tail(b))

Contains(hay, needle) ==
    \E i \in 0..(Len(hay) - Len(needle)) : SubSeq(hay, i + 1, i + Len(needle)) = needle

(* { $regex: term, $options: 'i' } for a term of plain letters *)
RegexMatchI(term, text) == Contains(LowerStr(text), LowerStr(term))

----------------------------------------------------------------------------
(* Search/filter compiler *)

(* the query object built from req.query *)
BuildQuery(req) ==
    [text |-> IF Truthy(req.q) THEN req.q ELSE Undefined,
     category |-> IF Truthy(req.category) THEN req.category ELSE Undefined,
     subcategory |-> IF Truthy(req.subcategory) THEN req.subcategory ELSE Undefined,
     priceGte |-> IF Truthy(req.minPrice) THEN ParseFloat(req.minPrice) ELSE NoNum,
     priceLte |-> IF Truthy(req.maxPrice) THEN ParseFloat(req.maxPrice) ELSE NoNum,
     hairTypes |-> IF Truthy(req.hairType) THEN <<req.hairType>> ELSE Undefined,
     skinTypes |-> IF Truthy(req.skinType) THEN <<req.skinType>> ELSE Undefined,
     ratingGte |-> IF Truthy(req.minRating) THEN ParseFloat(req.minRating) ELSE NoNum]

(* casting a NaN bound to the Number path fails *)
QueryCastFails(query) ==
    \E b \in {query.priceGte, query.priceLte, query.ratingGte} :
        b.k = "nan"

MatchesQuery(p, query) ==
    /\ query.text # Undefined =>
          \/ RegexMatchI(query.text, p.name)
          \/ RegexMatchI(query.text, p.description)
          \/ \E i \in 1..Len(p.ingredients) : RegexMatchI(query.text, p.ingredients[i])
    /\ query.category # Undefined => RegexMatchI(query.category, p.category)
    /\ query.subcategory # Undefined => RegexMatchI(query.subcategory, p.subcategory)
    /\ query.priceGte # NoNum => p.price >= query.priceGte.v
    /\ query.priceLte # NoNum => p.price <= query.priceLte.v
    /\ query.hairTypes # Undefined =>
          SeqToSet(p.hairType) \cap SeqToSet(query.hairTypes) # {}
    /\ query.skinTypes # Undefined =>
          SeqToSet(p.skinType) \cap SeqToSet(query.skinTypes) # {}
    /\ query.ratingGte # NoNum => p.averageRating >= query.ratingGte.v

(* the default branches taking the requested order *)
SortOptionsDefaultOrdered(sortBy, sortOrder) ==
    LET order == IF sortOrder = <<"d", "e", "s", "c">> THEN -1 ELSE 1
    IN IF Truthy(sortBy)
       THEN CASE sortBy = <<"p", "r", "i", "c", "e">> -> [field |-> "price", dir |-> order]
              [] sortBy = <<"r", "a", "t", "i", "n", "g">> ->
                    [field |-> "averageRating", dir |-> order]
              [] sortBy = <<"n", "a", "m", "e">> -> [field |-> "name", dir |-> order]
              [] sortBy = <<"n", "e", "w", "e", "s", "t">> ->
                    [field |-> "createdAt", dir |-> -1]
              [] sortBy = <<"o", "l", "d", "e", "s", "t">> ->
                    [field |-> "createdAt", dir |-> 1]
              [] sortBy = <<"p", "o", "p", "u", "l", "a", "r">> ->
                    [field |-> "reviewCount", dir |-> -1]
              [] OTHER -> [field |-> "createdAt", dir |-> order]
       ELSE [field |-> "createdAt", dir |-> -1]

(* the sort options object: one field with direction 1 or -1 *)
SortOptions(sortBy, sortOrder) ==
    LET order == IF sortOrder = <<"d", "e", "s", "c">> THEN -1 ELSE 1
    IN IF Truthy(sortBy)
       THEN CASE sortBy = <<"p", "r", "i", "c", "e">> -> [field |-> "price", dir |-> order]
              [] sortBy = <<"r", "a", "t", "i", "n", "g">> ->
                    [field |-> "averageRating", dir |-> order]
              [] sortBy = <<"n", "a", "m", "e">> -> [field |-> "name", dir |-> order]
              [] sortBy = <<"n", "e", "w", "e", "s", "t">> ->
                    [field |-> "createdAt", dir |-> -1]
              [] sortBy = <<"o", "l", "d", "e", "s", "t">> ->
                    [field |-> "createdAt", dir |-> 1]
              [] sortBy = <<"p", "o", "p", "u", "l", "a", "r">> ->
                    [field |-> "reviewCount", dir |-> -1]
              [] OTHER -> [field |-> "createdAt", dir |-> -1]
       ELSE [field |-> "createdAt", dir |-> -1]

(* the value of the sort field is smaller *)
FieldLess(a, b, field) ==
    CASE field = "price" -> a.price < b.price
      [] field = "averageRating" -> a.averageRating < b.averageRating
      [] field = "name" -> StrLess(a.name, b.name)
      [] field = "createdAt" -> a.createdAt < b.createdAt
      [] field = "reviewCount" -> a.reviewCount < b.reviewCount

(* a sorts strictly before b *)
SortsBefore(a, b, sort) ==
    IF sort.dir = 1 THEN FieldLess(a, b, sort.field) ELSE FieldLess(b, a, sort.field)

(* .sort(sortOptions): documents of equal key stay in store order *)
RECURSIVE InsertSorted(_, _, _)
InsertSorted(sorted, e, sort) ==
    IF sorted = <<>> THEN <<e>>
    ELSE IF SortsBefore(e, Head(sorted), sort)
         THEN <<e>> \o sorted
         ELSE <<Head(sorted)>> \o InsertSorted(Tail(sorted), e, sort)

RECURSIVE SortFrom(_, _, _, _)
SortFrom(docs, i, acc, sort) ==
    IF i > Len(docs) THEN acc
    ELSE SortFrom(docs, i + 1, InsertSorted(acc, docs[i], sort), sort)

SortProducts(docs, sort) == SortFrom(docs, 1, <<>>, sort)

(* parseInt(page) * parseInt(limit): the window one page too far *)
SkipOfNextPage(pageN, limitN) ==
    IF pageN.k # "num" \/ limitN.k # "num" THEN NaN
    ELSE Num(pageN.v * limitN.v)

(* (parseInt(page) - 1) * parseInt(limit) *)
SkipOf(pageN, limitN) ==
    IF pageN.k # "num" \/ limitN.k # "num" THEN NaN
    ELSE Num((pageN.v - 1) * limitN.v)

(* .skip(n).limit(m) of the driver: limit 0 is no limit, a negative
   limit is its absolute value *)
SkipLimit(docs, n, m) ==
    LET rest == IF n >= Len(docs) THEN <<>> ELSE SubSeq(docs, n + 1, Len(docs))
        take == IF m < 0 THEN 0 - m ELSE m
    IN IF take = 0 THEN rest ELSE Limit(rest, take)

NoReq ==
    [q |-> Undefined, category |-> Undefined, subcategory |-> Undefined,
     minPrice |-> Undefined, maxPrice |-> Undefined, hairType |-> Undefined,
     skinType |-> Undefined, minRating |-> Undefined, sortBy |-> Undefined,
     sortOrder |-> Undefined, page |-> Undefined, limit |-> Undefined]

NoSort == [field |-> "none", dir |-> 0]

NoSearch ==
    [op |-> "none", status |-> 0, req |-> NoReq, products |-> <<>>,
     sort |-> NoSort, currentPage |-> NaN, totalPages |-> NaN, totalProducts |-> 0,
     hasNextPage |-> FALSE, hasPrevPage |-> FALSE, limit |-> NaN,
     values |-> <<>>, minPrice |-> 0, maxPrice |-> 0]

(* router.get('/search') *)
SearchResponse(cat, req) ==
    LET page == IF req.page = Undefined THEN <<"1">> ELSE req.page
        limit == IF req.limit = Undefined THEN <<"1", "0">> ELSE req.limit
        query == BuildQuery(req)
        sortOptions == SortOptions(req.sortBy, req.sortOrder)
        skip == SkipOf(ParseInt(page), ParseInt(limit))
        matching == SelectSeq(cat, LAMBDA p : MatchesQuery(p, query))
        products == SkipLimit(SortProducts(matching, sortOptions), skip.v, ParseInt(limit).v)
        totalProducts == Len(matching)
        totalPages == MathCeilDiv(totalProducts, ParseInt(limit))
        failed == [NoSearch EXCEPT !.op = "search", !.status = 500, !.req = req,
                                   !.sort = sortOptions]
    IN IF QueryCastFails(query) THEN failed
       ELSE IF skip.k # "num" \/ skip.v < 0 THEN failed
       ELSE [op |-> "search", status |-> 200, req |-> req,
             products |-> Ids(products), sort |-> sortOptions,
             currentPage |-> ParseInt(page), totalPages |-> totalPages,
             totalProducts |-> totalProducts,
             hasNextPage |-> NumLess(ParseInt(page), totalPages),
             hasPrevPage |-> NumLess(Num(1), ParseInt(page)),
             limit |-> ParseInt(limit),
             values |-> <<>>, minPrice |-> 0, maxPrice |-> 0]

(* Constants of the suggestion handler *)

MinQueryLength == 2
ProductSuggestionLimit == 5
CategorySuggestionCount == 3
IngredientSuggestionLimit == 5

Typed(type, vals) == [i \in 1..Len(vals) |-> [type |-> type, value |-> vals[i]]]

Flat(arrays) ==
    LET RECURSIVE Cat(_)
        Cat(i) == IF i > Len(arrays) THEN <<>> ELSE arrays[i] \o Cat(i + 1)
    IN Cat(1)

(* Product.distinct(field): each value once, in the order the collection
   yields them *)
Distinct(vals) == NewSet(vals)

(* the terms drawn are letters, or "((": a pattern the database rejects *)
UnclosedGroup == <<"(", "(">>

RegexCompiles(term) == \A i \in 1..Len(term) : term[i] # "("

(* the three queries of the suggestion handler *)
ProductSuggestions(cat, q) ==
    Limit(SelectSeq([i \in 1..Len(cat) |-> cat[i].name], LAMBDA n : RegexMatchI(q, n)),
          ProductSuggestionLimit)

CategorySuggestions(cat, q) ==
    SelectSeq(Distinct([i \in 1..Len(cat) |-> cat[i].category]),
              LAMBDA c : RegexMatchI(q, c))

IngredientSuggestions(cat, q) ==
    Limit(Distinct(SelectSeq(Flat([i \in 1..Len(cat) |-> cat[i].ingredients]),
                             LAMBDA g : RegexMatchI(q, g))),
          IngredientSuggestionLimit)

(* the handler without the slice of the category suggestions *)
SuggestionsResponseUnsliced(cat, q) ==
    LET asked == [NoReq EXCEPT !.q = q]
    IN IF ~Truthy(q) \/ Len(q) < MinQueryLength
       THEN [NoSearch EXCEPT !.op = "suggestions", !.status = 200, !.req = asked]
       ELSE IF ~RegexCompiles(q)
       THEN [NoSearch EXCEPT !.op = "suggestions", !.status = 500, !.req = asked]
       ELSE [NoSearch EXCEPT !.op = "suggestions", !.status = 200, !.req = asked,
                !.values = Typed("product", ProductSuggestions(cat, q))
                           \o Typed("category", CategorySuggestions(cat, q))
                           \o Typed("ingredient", IngredientSuggestions(cat, q))]

(* router.get('/search/suggestions') *)
SuggestionsResponse(cat, q) ==
    LET asked == [NoReq EXCEPT !.q = q]
    IN IF ~Truthy(q) \/ Len(q) < MinQueryLength
       THEN [NoSearch EXCEPT !.op = "suggestions", !.status = 200, !.req = asked]
       ELSE IF ~RegexCompiles(q)
       THEN [NoSearch EXCEPT !.op = "suggestions", !.status = 500, !.req = asked]
       ELSE [NoSearch EXCEPT !.op = "suggestions", !.status = 200, !.req = asked,
                !.values = Typed("product", ProductSuggestions(cat, q))
                           \o Typed("category",
                                    Slice(CategorySuggestions(cat, q),
                                          CategorySuggestionCount))
                           \o Typed("ingredient", IngredientSuggestions(cat, q))]

(* router.get('/filters') *)
FiltersResponse(cat) ==
    LET prices == {cat[i].price : i \in 1..Len(cat)}
        nonEmpty(vals) == SelectSeq(vals, LAMBDA v : v # <<>>)
        categories == nonEmpty(Distinct([i \in 1..Len(cat) |-> cat[i].category]))
        subcategories == nonEmpty(Distinct([i \in 1..Len(cat) |-> cat[i].subcategory]))
        hairTypes == nonEmpty(Distinct(Flat([i \in 1..Len(cat) |-> cat[i].hairType])))
        skinTypes == nonEmpty(Distinct(Flat([i \in 1..Len(cat) |-> cat[i].skinType])))
    IN [NoSearch EXCEPT !.op = "filters", !.status = 200,
            !.values = Typed("category", categories) \o Typed("subcategory", subcategories)
                       \o Typed("hairType", hairTypes) \o Typed("skinType", skinTypes),
            !.minPrice = IF prices = {} THEN 0
                         ELSE CHOOSE x \in prices : \A y \in prices : x <= y,
            !.maxPrice = IF prices = {} THEN 0
                         ELSE CHOOSE x \in prices : \A y \in prices : x >= y]

----------------------------------------------------------------------------
(* The store and its handlers *)

Idle == resp = EmptyResp /\ search = NoSearch

(* a review submission of a user: where its handler stands, what it was
   sent, the statistics it has read and the status it answered *)
NoSub ==
    [pc |-> "idle", userId |-> 0, productId |-> 0, rating |-> 0, count |-> 0, sum |-> 0,
     status |-> 0]

NoSubs == [uid \in 1..NumUsers |-> NoSub]

(* requests of one user that run at the same time, and how many are served *)
NumFlights == 2
MaxFlights == 3

(* a cart or purchase request: the document it read (cart, __v) and its body *)
NoFlight ==
    [pc |-> "idle", op |-> "none", productId |-> <<>>, quantity |-> 0,
     cart |-> <<>>, version |-> 0, status |-> 0]

(* no cart or purchase request between its read and its save; version is
   the __v of the user's document *)
NoFlights ==
    [version |-> 0, started |-> 0, req |-> [slot \in 1..NumFlights |-> NoFlight]]

(* accounts by email; 3 is an email without an account *)
Accounts == {1, 2}
UnknownEmail == 3

(* a signed token: jwt.sign(payload, JWT_SECRET, { expiresIn }) *)
NoToken == [email |-> 0, purpose |-> "none", exp |-> 0]

(* no document of PasswordResetToken for an email *)
NoOtp == [stored |-> FALSE, otp |-> 0, expiresAt |-> 0]

NoAnswer == [op |-> "none", status |-> 0, email |-> 0, otp |-> 0, token |-> NoToken]

(* no password reset under way: the clock in minutes, the password of each
   account, the stored OTP of each email, the tokens signed so far and the
   last response *)
NoAuth ==
    [now |-> 0,
     password |-> [e \in Accounts |-> 0],
     otps |-> [e \in Accounts |-> NoOtp],
     signed |-> {},
     last |-> NoAnswer]

(* no booking, no reminder sent: now is the time in minutes since 00:00 UTC
   of day 0, zone the minutes by which the local time of the process is
   ahead of UTC *)
NoReminders == [now |-> 0, zone |-> 0, bookings |-> <<>>, sent |-> {}]

Init ==
    /\ catalog = <<>>
    /\ nextPid = 1
    /\ users = [i \in 1..NumUsers |-> NewUser(i)]
    /\ resp = EmptyResp
    /\ search = NoSearch
    /\ reviews = <<>>
    /\ subs = NoSubs
    /\ flights = NoFlights
    /\ auth = NoAuth
    /\ reminders = NoReminders

(* router.post('/') of the product routes *)
CreateProduct(body) ==
    /\ Idle
    /\ nextPid <= MaxProducts
    /\ catalog' = Append(catalog, NewProduct(nextPid, body))
    /\ nextPid' = nextPid + 1
    /\ resp' = Status("create", 0, 201)
    /\ UNCHANGED <<users, search, reviews, subs, flights, auth, reminders>>

(* router.put('/:id'): findByIdAndUpdate(id, req.body) *)
UpdateProduct(id, body) ==
    /\ Idle
    /\ IF id \in CatalogIds(catalog)
       THEN /\ catalog' = [i \in 1..Len(catalog) |->
                             IF catalog[i].id = id
                             THEN [catalog[i] EXCEPT
                                     !.name = body.name, !.category = body.category,
                                     !.subcategory = body.subcategory,
                                     !.description = body.description,
                                     !.price = body.price, !.hairType = body.hairType,
                                     !.skinType = body.skinType,
                                     !.ingredients = body.ingredients]
                             ELSE catalog[i]]
            /\ resp' = Status("update", 0, 200)
       ELSE /\ catalog' = catalog
            /\ resp' = Status("update", 0, 404)
    /\ UNCHANGED <<nextPid, users, search, reviews, subs, flights, auth, reminders>>

(* router.put('/:id') with the body { isActive: false } *)
Deactivate(id) ==
    /\ Idle
    /\ IF id \in CatalogIds(catalog)
       THEN /\ catalog' = [i \in 1..Len(catalog) |->
                             IF catalog[i].id = id
                             THEN [catalog[i] EXCEPT !.isActive = FALSE]
                             ELSE catalog[i]]
            /\ resp' = Status("update", 0, 200)
       ELSE /\ catalog' = catalog
            /\ resp' = Status("update", 0, 404)
    /\ UNCHANGED <<nextPid, users, search, reviews, subs, flights, auth, reminders>>

(* router.delete('/:id'): findByIdAndDelete *)
DeleteProduct(id) ==
    /\ Idle
    /\ IF id \in CatalogIds(catalog)
       THEN /\ catalog' = SelectSeq(catalog, LAMBDA p : p.id # id)
            /\ resp' = Status("delete", 0, 200)
       ELSE /\ catalog' = catalog
            /\ resp' = Status("delete", 0, 404)
    /\ UNCHANGED <<nextPid, users, search, reviews, subs, flights, auth, reminders>>

(* router.put('/preferences') *)
SetPreferences(uid, hairType) ==
    /\ Idle
    /\ uid \in UserIds(users)
    /\ users' = [i \in 1..Len(users) |->
                   IF users[i].id = uid
                   THEN [users[i] EXCEPT !.hairType = hairType]
                   ELSE users[i]]
    /\ resp' = Status("preferences", uid, 200)
    /\ UNCHANGED <<catalog, nextPid, search, reviews, subs, flights, auth, reminders>>

ItemInputs == {[productId |-> s, quantity |-> 1] : s \in IdStrings(MaxProducts)}

(* res.status(code).json(...) of the purchase handler, with req.body.items
   kept for reference *)
Answered(items, uid, code) == [Status("purchase", uid, code) EXCEPT !.items = items]

(* the purchase handler without the comparison of products.length and
   items.length *)
PurchaseUnverified(uid, items) ==
    /\ Idle
    /\ uid \in UserIds(users)
    /\ IF Len(items) = 0
       THEN /\ resp' = Answered(items, uid, 400)
            /\ users' = users
       ELSE IF \E i \in 1..Len(items) : ~IsObjectIdStr(items[i].productId)
       THEN /\ resp' = Answered(items, uid, 500)
            /\ users' = users
       ELSE LET productIds == [i \in 1..Len(items) |-> items[i].productId]
                products == FindByIds(catalog, CastIds(productIds))
                purchaseRecords ==
                    [i \in 1..Len(items) |->
                        [productId |-> CastObjectId(items[i].productId),
                         quantity |-> items[i].quantity]]
            IN IF Len(products) = 0
               THEN /\ resp' = Answered(items, uid, 400)
                    /\ users' = users
               ELSE /\ TotalPurchases + Len(items) <= MaxPurchases
                    /\ users' = [i \in 1..Len(users) |->
                                   IF users[i].id = uid
                                   THEN [users[i] EXCEPT
                                            !.purchaseHistory =
                                                users[i].purchaseHistory \o purchaseRecords,
                                            !.cart = <<>>]
                                   ELSE users[i]]
                    /\ resp' = Answered(items, uid, 200)
    /\ UNCHANGED <<catalog, nextPid, search, reviews, subs, flights, auth, reminders>>

(* router.post('/purchase') *)
Purchase(uid, items) ==
    /\ Idle
    /\ uid \in UserIds(users)
    /\ IF Len(items) = 0
       THEN /\ resp' = Answered(items, uid, 400)
            /\ users' = users
       ELSE IF \E i \in 1..Len(items) : ~IsObjectIdStr(items[i].productId)
       THEN /\ resp' = Answered(items, uid, 500)
            /\ users' = users
       ELSE LET productIds == [i \in 1..Len(items) |-> items[i].productId]
                products == FindByIds(catalog, CastIds(productIds))
                purchaseRecords ==
                    [i \in 1..Len(items) |->
                        [productId |-> CastObjectId(items[i].productId),
                         quantity |-> items[i].quantity]]
            IN IF Len(products) # Len(items)
               THEN /\ resp' = Answered(items, uid, 400)
                    /\ users' = users
               ELSE /\ TotalPurchases + Len(items) <= MaxPurchases
                    /\ users' = [i \in 1..Len(users) |->
                                   IF users[i].id = uid
                                   THEN [users[i] EXCEPT
                                            !.purchaseHistory =
                                                users[i].purchaseHistory \o purchaseRecords,
                                            !.cart = <<>>]
                                   ELSE users[i]]
                    /\ resp' = Answered(items, uid, 200)
    /\ UNCHANGED <<catalog, nextPid, search, reviews, subs, flights, auth, reminders>>

(* the request also stored as an interaction of the user *)
HybridRecording(uid, text) ==
    /\ Idle
    /\ resp' = HybridResponse(catalog, users, uid, text)
    /\ users' = [i \in 1..Len(users) |->
                   IF users[i].id = uid THEN [users[i] EXCEPT !.cart = <<>>] ELSE users[i]]
    /\ UNCHANGED <<catalog, nextPid, search, reviews, subs, flights, auth, reminders>>

Hybrid(uid, text) ==
    /\ Idle
    /\ resp' = HybridResponse(catalog, users, uid, text)
    /\ UNCHANGED <<catalog, nextPid, users, search, reviews, subs, flights, auth, reminders>>

Collaborative(uid) ==
    /\ Idle
    /\ resp' = CollaborativeResponse(catalog, users, uid)
    /\ UNCHANGED <<catalog, nextPid, users, search, reviews, subs, flights, auth, reminders>>

ContentBased(uid) ==
    /\ Idle
    /\ resp' = ContentBasedResponse(catalog, users, uid)
    /\ UNCHANGED <<catalog, nextPid, users, search, reviews, subs, flights, auth, reminders>>

Ai(uid, text) ==
    /\ Idle
    /\ resp' = AiResponse(catalog, users, uid, text)
    /\ UNCHANGED <<catalog, nextPid, users, search, reviews, subs, flights, auth, reminders>>

(* res.json(...): the response leaves the server and the next request of
   the one-at-a-time schedule can be taken *)
Deliver ==
    /\ resp # EmptyResp \/ search # NoSearch
    /\ resp' = EmptyResp
    /\ search' = NoSearch
    /\ UNCHANGED <<catalog, nextPid, users, reviews, subs, flights, auth, reminders>>

Search(req) ==
    /\ Idle
    /\ search' = SearchResponse(catalog, req)
    /\ UNCHANGED <<catalog, nextPid, users, resp, reviews, subs, flights, auth, reminders>>

Next ==
    \/ \E body \in ProductBodies : CreateProduct(body)
    \/ \E id \in 1..MaxProducts, body \in ProductBodies : UpdateProduct(id, body)
    \/ \E id \in 1..MaxProducts : Deactivate(id)
    \/ \E id \in 1..MaxProducts : DeleteProduct(id)
    \/ \E uid \in 1..NumUsers, h \in HairPrefs : SetPreferences(uid, h)
    \/ \E uid \in 1..NumUsers, items \in SeqsUpTo(ItemInputs, MaxItems) : Purchase(uid, items)
    \/ \E uid \in 1..NumUsers, text \in RerankerOutcomes(MaxProducts, MaxRanked) : Hybrid(uid, text)
    \/ \E uid \in 1..NumUsers, text \in RerankerOutcomes(MaxProducts, MaxRanked) : Ai(uid, text)
    \/ \E uid \in 1..NumUsers : Collaborative(uid)
    \/ \E uid \in 1..NumUsers : ContentBased(uid)
    \/ Deliver

Spec == Init /\ [][Next]_vars

----------------------------------------------------------------------------
(* The handlers over drawn stores: many peers, and a catalog larger than
   the limits of the candidate sources *)

MaxPeers == 6
MaxCatalog == 45

PurchaseOf(id) == [productId |-> id, quantity |-> 1]

RequesterHistories ==
    {<<>>, <<PurchaseOf(1), PurchaseOf(1)>>, <<PurchaseOf(1), PurchaseOf(2)>>,
     <<PurchaseOf(2), PurchaseOf(1), PurchaseOf(2)>>}

PeerHistories ==
    {<<>>, <<PurchaseOf(2), PurchaseOf(3), PurchaseOf(2)>>,
     <<PurchaseOf(1), PurchaseOf(2)>>}

RangeHistory(first, len) == [i \in 1..len |-> PurchaseOf(first + i - 1)]

RangeStarts == {1, 16, 21}
RangeLens == {0, 21, 25}

(* a ranking one longer than the fallback *)
LongRanking == JsonArray("none", [i \in 1..(FallbackCount + 1) |-> ObjectIdStr(i)])

InputTexts ==
    {Garbage, ServiceFailure, JsonArray("fence", <<ObjectIdStr(1)>>),
     JsonArray("none", <<ObjectIdStr(2), ObjectIdStr(1)>>),
     JsonArray("fence", <<ObjectIdStr(2), ObjectIdStr(1)>>), LongRanking}

(* the id of a token whose user is no longer stored *)
NoSuchUser == 0

RequestUsers == {1, NoSuchUser}

InitPeers ==
    /\ catalog = <<NewProduct(1, BodyOil), NewProduct(2, BodyGel), NewProduct(3, BodyOil)>>
    /\ nextPid = 4
    /\ \E own \in RequesterHistories, peers \in [1..MaxPeers -> PeerHistories] :
          users = [i \in 1..(MaxPeers + 1) |->
                     IF i = 1
                     THEN [NewUser(1) EXCEPT !.purchaseHistory = own]
                     ELSE [NewUser(i) EXCEPT !.purchaseHistory = peers[i - 1]]]

InitLimits ==
    /\ \E m \in 0..MaxCatalog :
          catalog = [i \in 1..MaxCatalog |->
                       NewProduct(i, IF i <= m THEN BodyOil ELSE BodyGel)]
    /\ nextPid = MaxCatalog + 1
    /\ \E own \in {<<>>, <<PurchaseOf(1)>>}, first \in RangeStarts, len \in RangeLens :
          users = <<[NewUser(1) EXCEPT !.hairType = HairDry, !.purchaseHistory = own],
                    [NewUser(2) EXCEPT !.purchaseHistory = RangeHistory(first, len)]>>

InitInputs ==
    /\ InitPeers \/ InitLimits
    /\ resp = EmptyResp
    /\ search = NoSearch
    /\ reviews = <<>>
    /\ subs = NoSubs
    /\ flights = NoFlights
    /\ auth = NoAuth
    /\ reminders = NoReminders

NextInputs ==
    \/ \E uid \in RequestUsers, text \in InputTexts : Hybrid(uid, text)
    \/ \E uid \in RequestUsers, text \in InputTexts : Ai(uid, text)
    \/ \E uid \in RequestUsers : Collaborative(uid)
    \/ \E uid \in RequestUsers : ContentBased(uid)
    \/ Deliver

SpecInputs == InitInputs /\ [][NextInputs]_vars

----------------------------------------------------------------------------
(* The search handler over drawn catalogs and requests *)

MaxSearchCatalog == 16

BodyWax ==
    [name |-> <<"W", "a", "x">>, category |-> <<"H", "a", "i", "r">>,
     subcategory |-> <<"h", "o", "l", "d">>, description |-> <<"O", "i", "l", "y">>,
     price |-> 200, hairType |-> <<HairDry>>, skinType |-> <<>>,
     ingredients |-> << <<"w", "a", "x">> >>]

BodyBalm ==
    [name |-> <<"b", "a", "l", "m">>, category |-> <<"S", "k", "i", "n">>,
     subcategory |-> <<"c", "a", "r", "e">>, description |-> <<"s", "o", "f", "t">>,
     price |-> 300, hairType |-> <<HairOily, HairDry>>, skinType |-> <<HairDry>>,
     ingredients |-> << <<"a", "l", "o", "e">>, <<"O", "I", "L">> >>]

SearchBodies == <<BodyOil, BodyWax, BodyBalm, BodyGel>>

SearchRatings == <<0, 35, 45, 40>>

SearchReviews == <<0, 2, 5, 2>>

(* product i of the drawn catalog, with review statistics as the review
   flow leaves them *)
SearchProduct(i) ==
    LET kind == ((i - 1) % 4) + 1
    IN [NewProduct(i, SearchBodies[kind]) EXCEPT
            !.price = IF kind = 4 THEN 400 ELSE SearchBodies[kind].price,
            !.averageRating = SearchRatings[kind],
            !.reviewCount = SearchReviews[kind]]

OptText(t) == {Undefined, t}

FilterChoices ==
    [q : OptText(<<"o", "i", "l">>), category : OptText(<<"h", "a", "i", "r">>),
     subcategory : OptText(<<"C", "a", "r", "e">>),
     minPrice : {Undefined, <<"1", "0">>, <<"x">>}, maxPrice : OptText(<<"3", "0">>),
     hairType : OptText(HairDry), skinType : OptText(HairDry),
     minRating : OptText(<<"3", ".", "5">>)]

ScenarioFilter ==
    [q |-> Undefined, category |-> Undefined, subcategory |-> Undefined,
     minPrice |-> <<"1", "0">>, maxPrice |-> <<"3", "0">>, hairType |-> HairDry,
     skinType |-> Undefined, minRating |-> Undefined]

NoFilter ==
    [q |-> Undefined, category |-> Undefined, subcategory |-> Undefined,
     minPrice |-> Undefined, maxPrice |-> Undefined, hairType |-> Undefined,
     skinType |-> Undefined, minRating |-> Undefined]

SortByChoices ==
    {Undefined, <<>>, <<"p", "r", "i", "c", "e">>, <<"r", "a", "t", "i", "n", "g">>,
     <<"n", "a", "m", "e">>, <<"n", "e", "w", "e", "s", "t">>,
     <<"o", "l", "d", "e", "s", "t">>, <<"p", "o", "p", "u", "l", "a", "r">>,
     <<"b", "o", "g", "u", "s">>, <<"c", "r", "e", "a", "t", "e", "d", "A", "t">>}

SortOrderChoices == {Undefined, <<"a", "s", "c">>, <<"d", "e", "s", "c">>}

PageChoices ==
    {Undefined, <<>>, <<"1">>, <<"2">>, <<"3">>, <<"0">>, <<"-", "1">>,
     <<"a", "b", "c">>, <<"2", "x">>}

LimitChoices ==
    {Undefined, <<"5">>, <<"2">>, <<"0">>, <<"-", "5">>, <<"a", "b", "c">>}

Request(filter, sortBy, sortOrder, page, limit) ==
    [q |-> filter.q, category |-> filter.category, subcategory |-> filter.subcategory,
     minPrice |-> filter.minPrice, maxPrice |-> filter.maxPrice,
     hairType |-> filter.hairType, skinType |-> filter.skinType,
     minRating |-> filter.minRating, sortBy |-> sortBy, sortOrder |-> sortOrder,
     page |-> page, limit |-> limit]

(* every filter, every sort and every page window, each against the
   plain request and against the request of the page-2 scenario *)
SearchRequests ==
    {Request(f, Undefined, Undefined, pl[1], pl[2]) :
        f \in FilterChoices, pl \in {<<Undefined, Undefined>>, <<<<"2">>, <<"5">>>>}}
    \cup {Request(f, sb, so, pl[1], pl[2]) :
            f \in {NoFilter, ScenarioFilter}, sb \in SortByChoices, so \in SortOrderChoices,
            pl \in {<<Undefined, Undefined>>, <<<<"2">>, <<"5">>>>}}
    \cup {Request(f, Undefined, Undefined, pg, lm) :
            f \in {NoFilter, ScenarioFilter}, pg \in PageChoices, lm \in LimitChoices}

InitSearch ==
    /\ \E n \in 0..MaxSearchCatalog : catalog = [i \in 1..n |-> SearchProduct(i)]
    /\ nextPid = Len(catalog) + 1
    /\ users = <<>>
    /\ resp = EmptyResp
    /\ search = NoSearch
    /\ reviews = <<>>
    /\ subs = NoSubs
    /\ flights = NoFlights
    /\ auth = NoAuth
    /\ reminders = NoReminders

NextSearch ==
    \/ \E req \in SearchRequests : Search(req)
    \/ Deliver

SpecSearch == InitSearch /\ [][NextSearch]_vars

----------------------------------------------------------------------------
(* The search handler as its two queries, with catalog writes of other
   requests between them *)

MaxRaceCatalog == 3

(* the handler after Product.find(query).sort().skip().limit() and before
   Product.countDocuments(query) *)
SearchFetched(cat, req) ==
    LET page == IF req.page = Undefined THEN <<"1">> ELSE req.page
        limit == IF req.limit = Undefined THEN <<"1", "0">> ELSE req.limit
        query == BuildQuery(req)
        sortOptions == SortOptions(req.sortBy, req.sortOrder)
        skip == SkipOf(ParseInt(page), ParseInt(limit))
        matching == SelectSeq(cat, LAMBDA p : MatchesQuery(p, query))
        products == SkipLimit(SortProducts(matching, sortOptions), skip.v, ParseInt(limit).v)
        failed == [NoSearch EXCEPT !.op = "search", !.status = 500, !.req = req,
                                   !.sort = sortOptions]
    IN IF QueryCastFails(query) THEN failed
       ELSE IF skip.k # "num" \/ skip.v < 0 THEN failed
       ELSE [NoSearch EXCEPT !.op = "fetched", !.req = req,
                             !.products = Ids(products), !.sort = sortOptions,
                             !.currentPage = ParseInt(page), !.limit = ParseInt(limit)]

(* countDocuments(query) on the catalog as it is now, and the response *)
SearchCounted(cat, fetched) ==
    LET matching == SelectSeq(cat, LAMBDA p : MatchesQuery(p, BuildQuery(fetched.req)))
        totalProducts == Len(matching)
        totalPages == MathCeilDiv(totalProducts, fetched.limit)
    IN [fetched EXCEPT !.op = "search", !.status = 200,
                       !.totalProducts = totalProducts, !.totalPages = totalPages,
                       !.hasNextPage = NumLess(fetched.currentPage, totalPages),
                       !.hasPrevPage = NumLess(Num(1), fetched.currentPage)]

SearchFetch(req) ==
    /\ Idle
    /\ search' = SearchFetched(catalog, req)
    /\ UNCHANGED <<catalog, nextPid, users, resp, reviews, subs, flights, auth, reminders>>

SearchCount ==
    /\ search.op = "fetched"
    /\ search' = SearchCounted(catalog, search)
    /\ UNCHANGED <<catalog, nextPid, users, resp, reviews, subs, flights, auth, reminders>>

(* router.post('/') of another request while the search awaits *)
CreateDuringSearch(body) ==
    /\ search.op = "fetched"
    /\ nextPid <= MaxRaceCatalog + 1
    /\ catalog' = Append(catalog, NewProduct(nextPid, body))
    /\ nextPid' = nextPid + 1
    /\ UNCHANGED <<users, resp, search, reviews, subs, flights, auth, reminders>>

(* router.put('/:id') of another request while the search awaits *)
UpdateDuringSearch(id, body) ==
    /\ search.op = "fetched"
    /\ id \in CatalogIds(catalog)
    /\ catalog' = [i \in 1..Len(catalog) |->
                     IF catalog[i].id = id
                     THEN [catalog[i] EXCEPT
                             !.name = body.name, !.category = body.category,
                             !.subcategory = body.subcategory,
                             !.description = body.description,
                             !.price = body.price, !.hairType = body.hairType,
                             !.skinType = body.skinType,
                             !.ingredients = body.ingredients]
                     ELSE catalog[i]]
    /\ UNCHANGED <<nextPid, users, resp, search, reviews, subs, flights, auth, reminders>>

(* router.delete('/:id') of another request while the search awaits *)
DeleteDuringSearch(id) ==
    /\ search.op = "fetched"
    /\ id \in CatalogIds(catalog)
    /\ catalog' = SelectSeq(catalog, LAMBDA p : p.id # id)
    /\ UNCHANGED <<nextPid, users, resp, search, reviews, subs, flights, auth, reminders>>

RaceRequests ==
    {Request(NoFilter, Undefined, Undefined, Undefined, Undefined),
     Request(NoFilter, Undefined, Undefined, <<"2">>, <<"2">>),
     Request(ScenarioFilter, <<"p", "r", "i", "c", "e">>, <<"a", "s", "c">>,
             <<"1">>, <<"2">>)}

InitRace ==
    /\ \E n \in 0..MaxRaceCatalog : catalog = [i \in 1..n |-> SearchProduct(i)]
    /\ nextPid = Len(catalog) + 1
    /\ users = <<>>
    /\ resp = EmptyResp
    /\ search = NoSearch
    /\ reviews = <<>>
    /\ subs = NoSubs
    /\ flights = NoFlights
    /\ auth = NoAuth
    /\ reminders = NoReminders

NextRace ==
    \/ \E req \in RaceRequests : SearchFetch(req)
    \/ \E body \in ProductBodies : CreateDuringSearch(body)
    \/ \E id \in 1..(MaxRaceCatalog + 1), body \in ProductBodies : UpdateDuringSearch(id, body)
    \/ \E id \in 1..(MaxRaceCatalog + 1) : DeleteDuringSearch(id)
    \/ SearchCount
    \/ Deliver

SpecRace == InitRace /\ [][NextRace]_vars

----------------------------------------------------------------------------
(* The cart routes *)

(* req.body.productId: absent, the string of an id, or a malformed string *)
CartProductInputs == {Undefined} \cup IdStrings(MaxProducts)

(* req.body.quantity: a number; an absent quantity is the default 1 *)
QuantityInputs == {1, 0, -1}

SetCart(uid, cart) ==
    [i \in 1..Len(users) |-> IF users[i].id = uid THEN [users[i] EXCEPT !.cart = cart]
                             ELSE users[i]]

(* position of the entry that user.cart.find(...) returns, or 0 *)
CartFind(cart, productId) ==
    IF \E i \in 1..Len(cart) : ObjectIdStr(cart[i].productId) = productId
    THEN CHOOSE i \in 1..Len(cart) :
            /\ ObjectIdStr(cart[i].productId) = productId
            /\ \A j \in 1..(i - 1) : ObjectIdStr(cart[j].productId) # productId
    ELSE 0

(* the handler adding the requested quantity to the entry's quantity *)
AddedCartAccumulating(cart, productId, quantity) ==
    LET at == CartFind(cart, productId)
    IN IF at > 0 THEN [cart EXCEPT ![at].quantity = @ + quantity]
       ELSE Append(cart, [productId |-> CastObjectId(productId), quantity |-> quantity])

(* the cart after cartItem.quantity = quantity or user.cart.push(...) *)
AddedCart(cart, productId, quantity) ==
    LET at == CartFind(cart, productId)
    IN IF at > 0 THEN [cart EXCEPT ![at].quantity = quantity]
       ELSE Append(cart, [productId |-> CastObjectId(productId), quantity |-> quantity])

(* res.json / res.status of the cart/add handler, with req.body kept for
   reference *)
CartAnswered(uid, productId, quantity, code) ==
    [Status("cart/add", uid, code) EXCEPT
        !.items = <<[productId |-> productId, quantity |-> quantity]>>]

(* router.post('/cart/add') *)
CartAdd(uid, productId, quantity) ==
    /\ Idle
    /\ uid \in UserIds(users)
    /\ IF ~Truthy(productId)
       THEN /\ resp' = CartAnswered(uid, productId, quantity, 400)
            /\ users' = users
       ELSE LET cart == FindUser(users, uid).cart
            IN IF CartFind(cart, productId) = 0 /\ ~IsObjectIdStr(productId)
               THEN /\ resp' = CartAnswered(uid, productId, quantity, 500)
                    /\ users' = users
               ELSE /\ users' = SetCart(uid, AddedCart(cart, productId, quantity))
                    /\ resp' = CartAnswered(uid, productId, quantity, 200)
    /\ UNCHANGED <<catalog, nextPid, search, reviews, subs, flights, auth, reminders>>

(* router.post('/cart/remove') *)
CartRemove(uid, productId) ==
    /\ Idle
    /\ uid \in UserIds(users)
    /\ IF ~Truthy(productId)
       THEN /\ resp' = Status("cart/remove", uid, 400)
            /\ users' = users
       ELSE /\ users' = SetCart(uid,
                            SelectSeq(FindUser(users, uid).cart,
                                      LAMBDA item : ObjectIdStr(item.productId) # productId))
            /\ resp' = Status("cart/remove", uid, 200)
    /\ UNCHANGED <<catalog, nextPid, search, reviews, subs, flights, auth, reminders>>

(* router.post('/cart/empty') *)
CartEmpty(uid) ==
    /\ Idle
    /\ uid \in UserIds(users)
    /\ users' = SetCart(uid, <<>>)
    /\ resp' = Status("cart/empty", uid, 200)
    /\ UNCHANGED <<catalog, nextPid, search, reviews, subs, flights, auth, reminders>>

(* a store with products on sale and registered users *)
InitStore ==
    /\ catalog = [i \in 1..MaxProducts |->
                    NewProduct(i, IF i % 2 = 1 THEN BodyOil ELSE BodyGel)]
    /\ nextPid = MaxProducts + 1
    /\ users = [i \in 1..NumUsers |-> NewUser(i)]
    /\ resp = EmptyResp
    /\ search = NoSearch
    /\ reviews = <<>>
    /\ subs = NoSubs
    /\ flights = NoFlights
    /\ auth = NoAuth
    /\ reminders = NoReminders

NextCart ==
    \/ \E uid \in 1..NumUsers, productId \in CartProductInputs, quantity \in QuantityInputs :
          CartAdd(uid, productId, quantity)
    \/ \E uid \in 1..NumUsers, productId \in CartProductInputs : CartRemove(uid, productId)
    \/ \E uid \in 1..NumUsers : CartEmpty(uid)
    \/ \E uid \in 1..NumUsers, items \in SeqsUpTo(ItemInputs, MaxItems) : Purchase(uid, items)
    \/ Deliver

SpecCart == InitStore /\ [][NextCart]_vars

----------------------------------------------------------------------------
(* The cart and purchase routes of one user, one step for User.findById and
   one for user.save(), with the requests interleaved *)

Shopper == 1

FlightOps == {"add", "remove", "empty", "purchase"}

FlightQuantities == {1, 2}

(* await User.findById(userId): the handler's copy of the document *)
CartRead(slot, op, productId, quantity) ==
    /\ flights.req[slot].pc = "idle"
    /\ flights.started < MaxFlights
    /\ flights' = [flights EXCEPT
                     !.started = @ + 1,
                     !.req[slot] = [pc |-> "read", op |-> op, productId |-> productId,
                                    quantity |-> quantity,
                                    cart |-> FindUser(users, Shopper).cart,
                                    version |-> flights.version, status |-> 0]]
    /\ UNCHANGED <<catalog, nextPid, users, resp, search, reviews, subs, auth, reminders>>

(* the cart of the handler's copy after the handler changed it *)
ModifiedCart(f) ==
    LET at == CartFind(f.cart, f.productId)
    IN CASE f.op = "add" ->
              IF at > 0 THEN [f.cart EXCEPT ![at].quantity = f.quantity]
              ELSE Append(f.cart, [productId |-> CastObjectId(f.productId),
                                   quantity |-> f.quantity])
         [] f.op = "remove" ->
              SelectSeq(f.cart, LAMBDA item : ObjectIdStr(item.productId) # f.productId)
         [] OTHER -> <<>>

(* what user.save() sends: an unchanged path is not sent; a push is sent as
   $push with $inc of __v; an assigned array as $set with __v in the filter
   and $inc of __v; a field of an entry as $set with __v in the filter *)
SaveKind(f) ==
    CASE ModifiedCart(f) = f.cart -> IF f.op = "purchase" THEN "push" ELSE "none"
      [] f.op = "add" /\ CartFind(f.cart, f.productId) = 0 -> "push"
      [] f.op = "add" -> "setField"
      [] OTHER -> "setArray"

(* the user's document after the update that save() sends, given the
   document in the store *)
Saved(doc, f) ==
    LET records == IF f.op = "purchase"
                   THEN <<[productId |-> CastObjectId(f.productId), quantity |-> f.quantity]>>
                   ELSE <<>>
        at == CartFind(f.cart, f.productId)
        cart == CASE SaveKind(f) = "none" -> doc.cart
                  [] SaveKind(f) = "push" /\ f.op = "add" ->
                        Append(doc.cart, [productId |-> CastObjectId(f.productId),
                                          quantity |-> f.quantity])
                  [] SaveKind(f) = "push" -> doc.cart
                  [] SaveKind(f) = "setField" -> [doc.cart EXCEPT ![at].quantity = f.quantity]
                  [] OTHER -> ModifiedCart(f)
    IN [doc EXCEPT !.cart = cart, !.purchaseHistory = @ \o records]

(* await user.save() and the response *)
CartSave(slot) ==
    LET f == flights.req[slot]
        kind == SaveKind(f)
        conflict == kind \in {"setField", "setArray"} /\ f.version # flights.version
        done(code) == [flights.req EXCEPT ![slot] = [NoFlight EXCEPT !.status = code]]
    IN /\ f.pc = "read"
       /\ IF conflict
          THEN /\ users' = users
               /\ flights' = [flights EXCEPT !.req = done(500)]
          ELSE /\ users' = [i \in 1..Len(users) |->
                              IF users[i].id = Shopper THEN Saved(users[i], f) ELSE users[i]]
               /\ flights' = [flights EXCEPT
                                !.req = done(200),
                                !.version = IF kind \in {"push", "setArray"} THEN @ + 1 ELSE @]
       /\ UNCHANGED <<catalog, nextPid, resp, search, reviews, subs, auth, reminders>>

NextFlights ==
    \/ \E slot \in 1..NumFlights, op \in FlightOps, id \in 1..MaxProducts,
          quantity \in FlightQuantities : CartRead(slot, op, ObjectIdStr(id), quantity)
    \/ \E slot \in 1..NumFlights : CartSave(slot)

SpecFlights == InitStore /\ [][NextFlights]_vars

----------------------------------------------------------------------------
(* Password reset: request-password-reset, verify-otp, reset-password *)

(* minutes *)
OtpLifetime == 10
TokenLifetime == 10
LoginLifetime == 1440

(* bounds of the clock and of the tokens signed in a run *)
TickMinutes == 5
MaxClock == 15
MaxSigned == 2

OtpValues == {1, 2}

(* the account whose owner logs in and tries the reset of the other *)
Intruder == 2
NewPasswords == {1}

Reply(op, status, email, otp, token) ==
    [op |-> op, status |-> status, email |-> email, otp |-> otp, token |-> token]

(* router.post('/request-password-reset'): otp is what generateOTP returns *)
RequestPasswordReset(email, otp) ==
    /\ auth' = IF email \notin Accounts
               THEN [auth EXCEPT !.last = Reply("request", 404, email, 0, NoToken)]
               ELSE [auth EXCEPT
                       !.otps[email] = [stored |-> TRUE, otp |-> otp,
                                        expiresAt |-> auth.now + OtpLifetime],
                       !.last = Reply("request", 200, email, 0, NoToken)]
    /\ UNCHANGED <<catalog, nextPid, users, resp, search, reviews, subs, flights, reminders>>

(* the verify-otp handler issuing its token whatever OTP is submitted *)
VerifyOtpUnchecked(email, otp) ==
    LET tempToken == [email |-> email, purpose |-> "password_reset",
                      exp |-> auth.now + TokenLifetime]
    IN /\ Cardinality(auth.signed \cup {tempToken}) <= MaxSigned
       /\ auth' = IF email \notin Accounts \/ ~auth.otps[email].stored
                  THEN [auth EXCEPT !.last = Reply("verify", 400, email, otp, NoToken)]
                  ELSE [auth EXCEPT !.signed = @ \cup {tempToken},
                                    !.last = Reply("verify", 200, email, otp, tempToken)]
       /\ UNCHANGED <<catalog, nextPid, users, resp, search, reviews, subs, flights,
                      reminders>>

(* router.post('/verify-otp') *)
VerifyOtp(email, otp) ==
    LET tempToken == [email |-> email, purpose |-> "password_reset",
                      exp |-> auth.now + TokenLifetime]
    IN /\ Cardinality(auth.signed \cup {tempToken}) <= MaxSigned
       /\ auth' = IF email \notin Accounts \/ ~auth.otps[email].stored
                  THEN [auth EXCEPT !.last = Reply("verify", 400, email, otp, NoToken)]
                  ELSE IF auth.otps[email].otp # otp
                          \/ auth.otps[email].expiresAt < auth.now
                  THEN [auth EXCEPT !.last = Reply("verify", 400, email, otp, NoToken)]
                  ELSE [auth EXCEPT !.signed = @ \cup {tempToken},
                                    !.last = Reply("verify", 200, email, otp, tempToken)]
       /\ UNCHANGED <<catalog, nextPid, users, resp, search, reviews, subs, flights,
                      reminders>>

(* router.post('/login') with the right password: a token signed with the
   same secret, without a purpose *)
Login(email) ==
    LET token == [email |-> email, purpose |-> "login", exp |-> auth.now + LoginLifetime]
    IN /\ email \in Accounts
       /\ Cardinality(auth.signed \cup {token}) <= MaxSigned
       /\ auth' = [auth EXCEPT !.signed = @ \cup {token},
                               !.last = Reply("login", 200, email, 0, token)]
       /\ UNCHANGED <<catalog, nextPid, users, resp, search, reviews, subs, flights,
                      reminders>>

(* the tokens a client can send: the signed ones, and one that jwt.verify
   rejects *)
Forged == [email |-> 1, purpose |-> "password_reset", exp |-> LoginLifetime]

(* router.post('/reset-password') *)
ResetPassword(token, newPassword) ==
    /\ auth' = IF token \notin auth.signed
               THEN [auth EXCEPT !.last = Reply("reset", 500, 0, 0, token)]
               ELSE IF token.exp <= auth.now
               THEN [auth EXCEPT !.last = Reply("reset", 400, 0, 0, token)]
               ELSE IF token.purpose # "password_reset"
               THEN [auth EXCEPT !.last = Reply("reset", 400, 0, 0, token)]
               ELSE [auth EXCEPT !.password[token.email] = newPassword,
                                 !.otps[token.email] = NoOtp,
                                 !.last = Reply("reset", 200, token.email, 0, token)]
    /\ UNCHANGED <<catalog, nextPid, users, resp, search, reviews, subs, flights, reminders>>

(* time passes *)
Tick ==
    /\ auth.now < MaxClock
    /\ auth' = [auth EXCEPT !.now = @ + TickMinutes]
    /\ UNCHANGED <<catalog, nextPid, users, resp, search, reviews, subs, flights, reminders>>

NextAuth ==
    \/ \E email \in Accounts \cup {UnknownEmail}, otp \in OtpValues :
          RequestPasswordReset(email, otp)
    \/ \E email \in Accounts \cup {UnknownEmail}, otp \in OtpValues : VerifyOtp(email, otp)
    \/ Login(Intruder)
    \/ \E token \in auth.signed \cup {Forged}, newPassword \in NewPasswords :
          ResetPassword(token, newPassword)
    \/ Tick

SpecAuth == InitStore /\ [][NextAuth]_vars

----------------------------------------------------------------------------
(* Review submission: router.post('/') of the review routes, one step per
   awaited query, with the submissions of different users interleaved *)

(* req.body.rating; the schema accepts 1 to 5 *)
RatingInputs == {0, 2, 5}

ExistingReview(uid, productId) ==
    \E i \in 1..Len(reviews) :
        reviews[i].userId = uid /\ reviews[i].productId = productId

Answer(slot, code) == [subs EXCEPT ![slot] = [NoSub EXCEPT !.status = code]]

(* Review.findOne({ userId, productId }) and checkVerifiedPurchase; slot is
   the request, uid its req.user.id *)
ReviewCheck(slot, uid, productId, rating) ==
    /\ subs[slot].pc = "idle"
    /\ subs' = IF ~IsObjectIdStr(productId) THEN Answer(slot, 400)
               ELSE IF ExistingReview(uid, CastObjectId(productId)) THEN Answer(slot, 400)
               ELSE [subs EXCEPT ![slot] =
                        [NoSub EXCEPT !.pc = "checked", !.userId = uid,
                                      !.productId = CastObjectId(productId),
                                      !.rating = rating]]
    /\ UNCHANGED <<catalog, nextPid, users, resp, search, reviews, flights, auth, reminders>>

(* review.save() without the unique index on (productId, userId) *)
ReviewSaveUnindexed(slot) ==
    /\ subs[slot].pc = "checked"
    /\ IF subs[slot].rating < 1 \/ subs[slot].rating > 5
       THEN /\ subs' = [subs EXCEPT ![slot].pc = "idle", ![slot].status = 400]
            /\ reviews' = reviews
       ELSE /\ reviews' = Append(reviews, [userId |-> subs[slot].userId,
                                            productId |-> subs[slot].productId,
                                            rating |-> subs[slot].rating])
            /\ subs' = [subs EXCEPT ![slot].pc = "saved"]
    /\ UNCHANGED <<catalog, nextPid, users, resp, search, flights, auth, reminders>>

(* review.save(): the schema's validation and the unique index on
   (productId, userId); a rejected request is answered 400 by the catch *)
ReviewSave(slot) ==
    /\ subs[slot].pc = "checked"
    /\ IF subs[slot].rating < 1 \/ subs[slot].rating > 5
          \/ ExistingReview(subs[slot].userId, subs[slot].productId)
       THEN /\ subs' = [subs EXCEPT ![slot].pc = "idle", ![slot].status = 400]
            /\ reviews' = reviews
       ELSE /\ reviews' = Append(reviews, [userId |-> subs[slot].userId,
                                            productId |-> subs[slot].productId,
                                            rating |-> subs[slot].rating])
            /\ subs' = [subs EXCEPT ![slot].pc = "saved"]
    /\ UNCHANGED <<catalog, nextPid, users, resp, search, flights, auth, reminders>>

(* the $match and $group of updateReviewStats: the number and the sum of
   the ratings of the product's reviews *)
AggregateStats(revs, productId) ==
    LET matched == SelectSeq(revs, LAMBDA r : r.productId = productId)
        RECURSIVE Sum(_)
        Sum(i) == IF i > Len(matched) THEN 0 ELSE matched[i].rating + Sum(i + 1)
    IN [count |-> Len(matched), sum |-> Sum(1)]

(* updateReviewStats: await this.model('Review').aggregate([...]) *)
ReadStats(slot) ==
    /\ subs[slot].pc = "saved"
    /\ LET stats == AggregateStats(reviews, subs[slot].productId)
       IN subs' = [subs EXCEPT ![slot].pc = "read", ![slot].count = stats.count,
                               ![slot].sum = stats.sum]
    /\ UNCHANGED <<catalog, nextPid, users, resp, search, reviews, flights, auth, reminders>>

(* (sum / count).toFixed(1), in tenths *)
ToFixed(sum, count) == (((sum * 100) \div count) + 5) \div 10

(* the update document of findByIdAndUpdate *)
StatsToWrite(sub) ==
    [averageRating |-> ToFixed(sub.sum, sub.count), reviewCount |-> sub.count]

(* updateReviewStats: await this.findByIdAndUpdate(productId, ...), then
   res.status(201) *)
WriteStats(slot) ==
    /\ subs[slot].pc = "read"
    /\ catalog' = [i \in 1..Len(catalog) |->
                     IF catalog[i].id = subs[slot].productId /\ subs[slot].count > 0
                     THEN [catalog[i] EXCEPT
                             !.averageRating = StatsToWrite(subs[slot]).averageRating,
                             !.reviewCount = StatsToWrite(subs[slot]).reviewCount]
                     ELSE catalog[i]]
    /\ subs' = Answer(slot, 201)
    /\ UNCHANGED <<nextPid, users, resp, search, reviews, flights, auth, reminders>>

NextReviews ==
    \/ \E uid \in 1..NumUsers, productId \in IdStrings(MaxProducts), rating \in RatingInputs :
          ReviewCheck(uid, uid, productId, rating)
    \/ \E slot \in 1..NumUsers : ReviewSave(slot)
    \/ \E slot \in 1..NumUsers : ReadStats(slot)
    \/ \E slot \in 1..NumUsers : WriteStats(slot)

SpecReviews == InitStore /\ [][NextReviews]_vars

(* the submissions of one user: both requests carry the same req.user.id *)
NextResubmit ==
    \/ \E slot \in 1..NumUsers, productId \in IdStrings(MaxProducts),
          rating \in RatingInputs : ReviewCheck(slot, Shopper, productId, rating)
    \/ \E slot \in 1..NumUsers : ReviewSave(slot)
    \/ \E slot \in 1..NumUsers : ReadStats(slot)
    \/ \E slot \in 1..NumUsers : WriteStats(slot)

SpecResubmit == InitStore /\ [][NextResubmit]_vars

----------------------------------------------------------------------------
(* The product routes with arbitrary request bodies *)

(* req.body of the product routes: a field is absent (<<>>) or carries a
   number (<<n>>); ratings are in tenths *)
NoBody == [price |-> <<>>, averageRating |-> <<>>, reviewCount |-> <<>>]

ProductRequestBodies ==
    {[NoBody EXCEPT !.price = <<-10>>],
     [NoBody EXCEPT !.averageRating = <<70>>],
     [NoBody EXCEPT !.reviewCount = <<-1>>],
     [price |-> <<50>>, averageRating |-> <<30>>, reviewCount |-> <<4>>]}

(* validation of save(): price is required, finite and not negative *)
PriceValid(price) == price # <<>> /\ price[1] >= 0

(* router.post('/'): only the destructured fields reach new Product(...),
   and save() validates them *)
CreateProductFrom(body) ==
    /\ Idle
    /\ nextPid <= MaxProducts
    /\ IF PriceValid(body.price)
       THEN /\ catalog' = Append(catalog,
                                 NewProduct(nextPid, [BodyOil EXCEPT !.price = body.price[1]]))
            /\ nextPid' = nextPid + 1
            /\ resp' = Status("create", 0, 201)
       ELSE /\ UNCHANGED <<catalog, nextPid>>
            /\ resp' = Status("create", 0, 500)
    /\ UNCHANGED <<users, search, reviews, subs, flights, auth, reminders>>

(* the $set that findByIdAndUpdate(id, req.body) builds from the fields of
   the body that the schema knows; update validators are off *)
SetFields(p, body) ==
    [p EXCEPT !.price = IF body.price = <<>> THEN @ ELSE body.price[1],
              !.averageRating = IF body.averageRating = <<>> THEN @
                                ELSE body.averageRating[1],
              !.reviewCount = IF body.reviewCount = <<>> THEN @ ELSE body.reviewCount[1]]

(* router.put('/:id') *)
UpdateProductFrom(id, body) ==
    /\ Idle
    /\ IF id \in CatalogIds(catalog)
       THEN /\ catalog' = [i \in 1..Len(catalog) |->
                             IF catalog[i].id = id THEN SetFields(catalog[i], body)
                             ELSE catalog[i]]
            /\ resp' = Status("update", 0, 200)
       ELSE /\ catalog' = catalog
            /\ resp' = Status("update", 0, 404)
    /\ UNCHANGED <<nextPid, users, search, reviews, subs, flights, auth, reminders>>

(* the user who submits reviews while the catalog is edited *)
Reviewer == 1

(* a store with one product on sale *)
InitProducts ==
    /\ catalog = <<NewProduct(1, BodyOil)>>
    /\ nextPid = 2
    /\ users = [i \in 1..NumUsers |-> NewUser(i)]
    /\ resp = EmptyResp
    /\ search = NoSearch
    /\ reviews = <<>>
    /\ subs = NoSubs
    /\ flights = NoFlights
    /\ auth = NoAuth
    /\ reminders = NoReminders

NextProducts ==
    \/ \E body \in ProductRequestBodies : CreateProductFrom(body)
    \/ \E id \in 1..MaxProducts, body \in ProductRequestBodies : UpdateProductFrom(id, body)
    \/ \E id \in 1..MaxProducts : DeleteProduct(id)
    \/ \E productId \in IdStrings(MaxProducts), rating \in RatingInputs :
          ReviewCheck(Reviewer, Reviewer, productId, rating)
    \/ ReviewSave(Reviewer)
    \/ ReadStats(Reviewer)
    \/ WriteStats(Reviewer)
    \/ Deliver

SpecProducts == InitProducts /\ [][NextProducts]_vars

----------------------------------------------------------------------------
(* The read-only requests over drawn stores *)

Suggestions(q) ==
    /\ Idle
    /\ search' = SuggestionsResponse(catalog, q)
    /\ UNCHANGED <<catalog, nextPid, users, resp, reviews, subs, flights, auth, reminders>>

Filters ==
    /\ Idle
    /\ search' = FiltersResponse(catalog)
    /\ UNCHANGED <<catalog, nextPid, users, resp, reviews, subs, flights, auth, reminders>>

SuggestionInputs == {Undefined, <<"o">>, <<"o", "i">>, <<"c", "a", "r", "e">>, UnclosedGroup}

HistoryChoices == {<<>>, <<PurchaseOf(1)>>, <<PurchaseOf(2), PurchaseOf(1)>>}

CartChoices == {<<>>, <<PurchaseOf(1)>>}

InitReads ==
    /\ \E n \in 0..MaxProducts :
          catalog = [i \in 1..n |-> NewProduct(i, IF i % 2 = 1 THEN BodyOil ELSE BodyGel)]
    /\ nextPid = MaxProducts + 1
    /\ \E h \in [1..NumUsers -> HairPrefs], own \in [1..NumUsers -> HistoryChoices],
          c \in [1..NumUsers -> CartChoices] :
          users = [i \in 1..NumUsers |->
                     [NewUser(i) EXCEPT !.hairType = h[i], !.purchaseHistory = own[i],
                                        !.cart = c[i]]]
    /\ resp = EmptyResp
    /\ search = NoSearch
    /\ reviews = <<>>
    /\ subs = NoSubs
    /\ flights = NoFlights
    /\ auth = NoAuth
    /\ reminders = NoReminders

NextReads ==
    \/ \E uid \in 0..NumUsers, text \in InputTexts : Hybrid(uid, text)
    \/ \E uid \in 0..NumUsers, text \in InputTexts : Ai(uid, text)
    \/ \E uid \in 0..NumUsers : Collaborative(uid)
    \/ \E uid \in 0..NumUsers : ContentBased(uid)
    \/ \E req \in RaceRequests : Search(req)
    \/ \E q \in SuggestionInputs : Suggestions(q)
    \/ Filters
    \/ Deliver

SpecReads == InitReads /\ [][NextReads]_vars

----------------------------------------------------------------------------
(* The recommendation routes that take the user id in the path; tokenId is
   req.user.id of the verified token, userId is req.params.userId *)

(* res.status(403): sent before any query *)
Forbidden(op, tokenId, userId) ==
    [Status(op, IF IsObjectIdStr(userId) THEN CastObjectId(userId) ELSE 0, 403)
        EXCEPT !.caller = CastObjectId(tokenId)]

(* the route without the comparison of req.user.id and req.params.userId *)
PathContentBasedOpen(tokenId, userId) ==
    /\ Idle
    /\ resp' = IF ~IsObjectIdStr(userId) THEN Forbidden("content-based", tokenId, userId)
               ELSE [ContentBasedResponse(catalog, users, CastObjectId(userId))
                        EXCEPT !.caller = CastObjectId(tokenId)]
    /\ UNCHANGED <<catalog, nextPid, users, search, reviews, subs, flights, auth, reminders>>

(* router.get('/content-based/:userId') *)
PathContentBased(tokenId, userId) ==
    /\ Idle
    /\ resp' = IF tokenId # userId THEN Forbidden("content-based", tokenId, userId)
               ELSE [ContentBasedResponse(catalog, users, CastObjectId(userId))
                        EXCEPT !.caller = CastObjectId(tokenId)]
    /\ UNCHANGED <<catalog, nextPid, users, search, reviews, subs, flights, auth, reminders>>

(* router.get('/collaborative/:userId') *)
PathCollaborative(tokenId, userId) ==
    /\ Idle
    /\ resp' = IF tokenId # userId THEN Forbidden("collaborative", tokenId, userId)
               ELSE [CollaborativeResponse(catalog, users, CastObjectId(userId))
                        EXCEPT !.caller = CastObjectId(tokenId)]
    /\ UNCHANGED <<catalog, nextPid, users, search, reviews, subs, flights, auth, reminders>>

(* ids of tokens: the users, and a user deleted after the token was signed *)
TokenIds == {ObjectIdStr(i) : i \in 1..(NumUsers + 1)}

NextPath ==
    \/ \E tokenId \in TokenIds, userId \in IdStrings(NumUsers + 1) :
          PathContentBased(tokenId, userId)
    \/ \E tokenId \in TokenIds, userId \in IdStrings(NumUsers + 1) :
          PathCollaborative(tokenId, userId)
    \/ Deliver

SpecPath == InitReads /\ [][NextPath]_vars

----------------------------------------------------------------------------
(* Bookings and the reminder job. A date string "YYYY-MM-DD" is the number
   of its calendar day, a time string "HH:MM" the pair of its hour and
   minute; an absent or empty body field is 0 or <<>> *)

DayMinutes == 1440
HourMinutes == 60
ReminderLead == 15

(* bounds: bookings in the store, minutes the job runs *)
MaxBookings == 2
MaxTicks == 40

(* the time zone of the process: UTC, UTC+2, UTC-5 *)
ZoneOffsets == {0, 120, -300}

(* the job starts at 23:40 local time of day 1 *)
FirstTickLocal == DayMinutes + 23 * HourMinutes + 40

(* Date.prototype.getHours / getMinutes: fields of the local time *)
GetHours(t, zone) == ((t + zone) % DayMinutes) \div HourMinutes
GetMinutes(t, zone) == (t + zone) % HourMinutes

(* `${currentHours}:${currentMinutes}` with both parts padded to two digits *)
TimeString(t, zone) == <<GetHours(t, zone), GetMinutes(t, zone)>>

(* toISOString().split('T')[0]: the calendar day in UTC *)
ISODate(t) == t \div DayMinutes

BookingDates == {0, 1, 2}
BookingTimeSlots == {<<>>, <<23, 58>>, <<0, 5>>}

(* router.post('/create') of the booking routes; the other required fields
   are present *)
CreateBooking(date, timeSlot, reminder) ==
    /\ Idle
    /\ Len(reminders.bookings) < MaxBookings
    /\ IF date = 0 \/ timeSlot = <<>>
       THEN /\ resp' = Status("booking/create", 0, 400)
            /\ reminders' = reminders
       ELSE /\ reminders' = [reminders EXCEPT
                               !.bookings = Append(@, [date |-> date,
                                                       timeSlot |-> timeSlot,
                                                       reminder |-> reminder])]
            /\ resp' = Status("booking/create", 0, 201)
    /\ UNCHANGED <<catalog, nextPid, users, search, reviews, subs, flights, auth>>

(* Booking.find({ reminder: true, date: currentDateString,
                  timeSlot: currentTimeString }) *)
UpcomingAppointments(bookings, currentDateString, currentTimeString) ==
    {i \in 1..Len(bookings) :
        /\ bookings[i].reminder
        /\ bookings[i].date = currentDateString
        /\ bookings[i].timeSlot = currentTimeString}

(* one run of the job of cron.schedule('* * * * *'), and the minute until
   the next; sent records the calls of sendReminderEmail *)
ReminderTick ==
    /\ reminders.now + reminders.zone < FirstTickLocal + MaxTicks
    /\ LET now == reminders.now
           fifteenMinutesLater == now + ReminderLead
           currentTimeString == TimeString(fifteenMinutesLater, reminders.zone)
           currentDateString == ISODate(fifteenMinutesLater)
           upcomingAppointments ==
               UpcomingAppointments(reminders.bookings, currentDateString,
                                    currentTimeString)
       IN reminders' = [reminders EXCEPT
                          !.sent = @ \cup {[booking |-> i, at |-> now] :
                                             i \in upcomingAppointments},
                          !.now = now + 1]
    /\ UNCHANGED <<catalog, nextPid, users, resp, search, reviews, subs, flights, auth>>

InitReminders ==
    /\ catalog = <<>>
    /\ nextPid = 1
    /\ users = [i \in 1..NumUsers |-> NewUser(i)]
    /\ resp = EmptyResp
    /\ search = NoSearch
    /\ reviews = <<>>
    /\ subs = NoSubs
    /\ flights = NoFlights
    /\ auth = NoAuth
    /\ reminders \in {[NoReminders EXCEPT !.now = FirstTickLocal - zone, !.zone = zone] :
                        zone \in ZoneOffsets}

NextReminders ==
    \/ \E date \in BookingDates, timeSlot \in BookingTimeSlots, reminder \in BOOLEAN :
          CreateBooking(date, timeSlot, reminder)
    \/ ReminderTick
    \/ Deliver

SpecReminders == InitReminders /\ [][NextReminders]_vars

----------------------------------------------------------------------------
(* The purchase handler over drawn stores, with bodies of several items *)

MaxPurchaseItems == 2

InitPurchase ==
    /\ \E n \in 0..MaxProducts :
          catalog = [i \in 1..n |-> NewProduct(i, IF i % 2 = 1 THEN BodyOil ELSE BodyGel)]
    /\ nextPid = MaxProducts + 1
    /\ \E own \in {<<>>, <<PurchaseOf(2)>>}, c \in [1..NumUsers -> CartChoices] :
          users = [i \in 1..NumUsers |->
                     [NewUser(i) EXCEPT !.purchaseHistory = IF i = 1 THEN own ELSE <<>>,
                                        !.cart = c[i]]]
    /\ resp = EmptyResp
    /\ search = NoSearch
    /\ reviews = <<>>
    /\ subs = NoSubs
    /\ flights = NoFlights
    /\ auth = NoAuth
    /\ reminders = NoReminders

NextPurchase ==
    \/ \E uid \in 1..NumUsers, items \in SeqsUpTo(ItemInputs, MaxPurchaseItems) :
          Purchase(uid, items)
    \/ Deliver

SpecPurchase == InitPurchase /\ [][NextPurchase]_vars

----------------------------------------------------------------------------
(* The suggestion handler over catalogs with more matches than its limits *)

MaxSuggestCatalog == 7

Letters == <<"a", "b", "c", "d", "e", "f", "g", "h">>

(* product i: its name, category and ingredient hold "oi"; k products in a
   row share a category *)
SuggestProduct(i, k) ==
    [NewProduct(i, BodyOil) EXCEPT
        !.name = <<"O", "i", "l", Letters[((i - 1) % 8) + 1]>>,
        !.category = <<"o", "i", "l", "s", Letters[(((i - 1) \div k) % 8) + 1]>>,
        !.ingredients = << <<"a", "l", "o", "e">>,
                           <<"o", "I", Letters[(((i - 1) \div k) % 8) + 1]>> >>]

InitSuggest ==
    /\ \E n \in 0..MaxSuggestCatalog, k \in 1..3 :
          catalog = [i \in 1..n |-> SuggestProduct(i, k)]
    /\ nextPid = MaxSuggestCatalog + 1
    /\ users = [i \in 1..NumUsers |-> NewUser(i)]
    /\ resp = EmptyResp
    /\ search = NoSearch
    /\ reviews = <<>>
    /\ subs = NoSubs
    /\ flights = NoFlights
    /\ auth = NoAuth
    /\ reminders = NoReminders

SuggestTerms ==
    {Undefined, <<>>, <<"o">>, <<"o", "i">>, <<"O", "I", "L">>, <<"a", "l", "o">>,
     <<"o", "i", "a">>, <<"z", "z">>, UnclosedGroup}

NextSuggest == \E q \in SuggestTerms : Suggestions(q)

SpecSuggest == InitSuggest /\ [][NextSuggest]_vars

----------------------------------------------------------------------------
(* Properties *)

PurchasedIds(uid) ==
    LET h == FindUser(users, uid).purchaseHistory
    IN {h[i].productId : i \in 1..Len(h)}

NoRepeat(s) == \A i, j \in 1..Len(s) : i # j => s[i] # s[j]

(* C1: no product of the requester's own purchase history is among the
   collaborative-source candidates, in the collaborative endpoint and in
   the collaborative part of the hybrid endpoint *)
ExclusionInvariant ==
    resp.op \in {"hybrid", "collaborative"} =>
        \A i \in 1..Len(resp.collaborative) :
            resp.collaborative[i] \notin PurchasedIds(resp.user)

(* a top peer bought something the requester owns and something new *)
ExclusionWitness ==
    /\ resp.op = "hybrid"
    /\ resp.collaborative # <<>>
    /\ \E i \in 1..Len(resp.topUsers) :
          PurchasedIds(resp.topUsers[i]) \cap PurchasedIds(resp.user) # {}

(* C2: the merged candidates of the hybrid recommendation number at most
   20 + 20 and hold no product identity twice *)
CandidateBound ==
    resp.op = "hybrid" =>
        /\ Len(resp.candidates) <= 20 + 20
        /\ NoRepeat(resp.candidates)

(* both sources are full and share products *)
CandidateBoundWitness ==
    /\ resp.op = "hybrid"
    /\ Len(resp.contentBased) = 20
    /\ Len(resp.collaborative) = 20
    /\ SeqToSet(resp.contentBased) \cap SeqToSet(resp.collaborative) # {}
    /\ Len(resp.candidates) > 20

NotJson(text) == text.kind = "garbage" \/ (text.kind = "array" /\ text.wrap # "none")

FirstOf(s, n) == [i \in 1..(IF Len(s) < n THEN Len(s) ELSE n) |-> s[i]]

(* C3: when the reranker's text is not parseable JSON the hybrid
   recommendation answers 200 with the first 10 candidates in merge order,
   a non-empty list whenever there is a candidate *)
FallbackSafety ==
    (resp.op = "hybrid" /\ NotJson(resp.text)) =>
        /\ resp.status = 200
        /\ resp.products = FirstOf(resp.candidates, 10)
        /\ (resp.candidates # <<>> => resp.products # <<>>)

(* the fallback cuts a longer candidate list *)
FallbackWitness ==
    /\ resp.op = "hybrid"
    /\ resp.text = Garbage
    /\ Len(resp.candidates) > 10
    /\ Len(resp.products) = 10

(* C4: the hybrid result is the reranker's identifiers in their order with
   every identifier outside the merged candidate set dropped *)
OutputWithinCandidates ==
    (resp.op = "hybrid" /\ resp.status = 200
        /\ resp.text.kind = "array" /\ resp.text.wrap = "none") =>
        resp.products =
            LET kept == SelectSeq(resp.text.ids,
                            LAMBDA s : \E i \in 1..Len(resp.candidates) :
                                          ObjectIdStr(resp.candidates[i]) = s)
            IN [i \in 1..Len(kept) |-> CastObjectId(kept[i])]

Overlap(a, b) == Cardinality(PurchasedIds(a) \cap PurchasedIds(b))

(* C7: the similarity score of two purchase histories is the number of
   distinct product ids they share, whichever history comes first *)
SimilarityIsIntersection ==
    resp.op \in {"hybrid", "collaborative"} =>
        \A i \in 1..Len(resp.scores) :
            LET peer == resp.scores[i].user
                a == Populate(catalog, FindUser(users, resp.user).purchaseHistory)
                b == Populate(catalog, FindUser(users, peer).purchaseHistory)
            IN /\ resp.scores[i].score = Overlap(resp.user, peer)
               /\ countCommonProducts(b, a) = resp.scores[i].score

(* both histories repeat a product and they share one *)
SimilarityWitness ==
    /\ resp.op = "collaborative"
    /\ resp.status = 200
    /\ Len(FindUser(users, resp.user).purchaseHistory) > Cardinality(PurchasedIds(resp.user))
    /\ \E i \in 1..Len(resp.scores) :
          /\ resp.scores[i].score >= 1
          /\ Len(FindUser(users, resp.scores[i].user).purchaseHistory)
                > Cardinality(PurchasedIds(resp.scores[i].user))

FetchPos(uid) == CHOOSE i \in 1..Len(resp.scores) : resp.scores[i].user = uid

Precedes(a, b) ==
    \/ Overlap(resp.user, a) > Overlap(resp.user, b)
    \/ Overlap(resp.user, a) = Overlap(resp.user, b) /\ FetchPos(a) < FetchPos(b)

(* C8: the collaborative source uses the first K peers by descending
   overlap, equal overlaps in fetch order, K = 3 for hybrid and K = 5 for
   collaborative *)
TopKSelection ==
    (resp.op \in {"hybrid", "collaborative"} /\ resp.scores # <<>>) =>
        LET k == IF resp.op = "hybrid" THEN 3 ELSE 5
            top == resp.topUsers
            fetched == {resp.scores[i].user : i \in 1..Len(resp.scores)}
        IN /\ Len(top) = (IF Len(resp.scores) < k THEN Len(resp.scores) ELSE k)
           /\ SeqToSet(top) \subseteq fetched
           /\ \A i, j \in 1..Len(top) : i < j => Precedes(top[i], top[j])
           /\ \A p \in fetched \ SeqToSet(top) :
                 \A i \in 1..Len(top) :
                    /\ Precedes(top[i], p)
                    /\ Overlap(resp.user, p) <= Overlap(resp.user, top[i])

(* more than K peers, a tie at the cut and a higher score fetched late *)
TopKWitness ==
    /\ resp.op = "collaborative"
    /\ Len(resp.scores) > 5
    /\ Len(resp.topUsers) = 5
    /\ \E p \in {resp.scores[i].user : i \in 1..Len(resp.scores)} \ SeqToSet(resp.topUsers) :
          Overlap(resp.user, p) = Overlap(resp.user, resp.topUsers[5])
    /\ \E i \in 1..4 : FetchPos(resp.topUsers[i]) > FetchPos(resp.topUsers[i + 1])

ValidWindow ==
    /\ search.op = "search"
    /\ search.status = 200
    /\ search.currentPage.k = "num" /\ search.currentPage.v >= 1
    /\ search.limit.k = "num" /\ search.limit.v >= 1

(* C5: for a valid page and limit, totalPages is the ceiling of
   totalProducts / limit, hasNextPage is page < totalPages and hasPrevPage
   is page > 1; no products give 0 pages and no next page *)
PaginationConsistency ==
    ValidWindow =>
        /\ search.totalPages.k = "num"
        /\ search.totalPages.v * search.limit.v >= search.totalProducts
        /\ (search.totalPages.v - 1) * search.limit.v < search.totalProducts
        /\ search.hasNextPage <=> (search.currentPage.v < search.totalPages.v)
        /\ search.hasPrevPage <=> (search.currentPage.v > 1)
        /\ search.totalProducts = 0 =>
              (search.totalPages.v = 0 /\ ~search.hasNextPage)

(* a middle page of a count that the limit does not divide *)
PaginationWitness ==
    /\ ValidWindow
    /\ search.totalProducts % search.limit.v # 0
    /\ search.hasNextPage
    /\ search.hasPrevPage

RecognizedSorts ==
    {<<"p", "r", "i", "c", "e">>, <<"r", "a", "t", "i", "n", "g">>,
     <<"n", "a", "m", "e">>, <<"n", "e", "w", "e", "s", "t">>,
     <<"o", "l", "d", "e", "s", "t">>, <<"p", "o", "p", "u", "l", "a", "r">>}

(* C6: without sortBy and with an unrecognized sortBy, whatever the
   sortOrder, the sort specification is descending creation time *)
SortDefault ==
    (search.op = "search" /\ search.req.sortBy \notin RecognizedSorts) =>
        /\ search.sort = [field |-> "createdAt", dir |-> -1]
        /\ \A i \in 1..(Len(search.products) - 1) :
              search.products[i] > search.products[i + 1]

(* an unrecognized sortBy asked in ascending order *)
SortDefaultWitness ==
    /\ search.op = "search"
    /\ search.status = 200
    /\ search.req.sortBy = <<"b", "o", "g", "u", "s">>
    /\ search.req.sortOrder = <<"a", "s", "c">>
    /\ Len(search.products) >= 2

(* the predicates a request supplies, on a product *)
Satisfies(p, req) ==
    /\ Truthy(req.q) =>
          \/ RegexMatchI(req.q, p.name)
          \/ RegexMatchI(req.q, p.description)
          \/ \E i \in 1..Len(p.ingredients) : RegexMatchI(req.q, p.ingredients[i])
    /\ Truthy(req.category) => RegexMatchI(req.category, p.category)
    /\ Truthy(req.subcategory) => RegexMatchI(req.subcategory, p.subcategory)
    /\ Truthy(req.minPrice) => p.price >= ParseFloat(req.minPrice).v
    /\ Truthy(req.maxPrice) => p.price <= ParseFloat(req.maxPrice).v
    /\ Truthy(req.hairType) => req.hairType \in SeqToSet(p.hairType)
    /\ Truthy(req.skinType) => req.skinType \in SeqToSet(p.skinType)
    /\ Truthy(req.minRating) => p.averageRating >= ParseFloat(req.minRating).v

(* position a comes ahead of position b in the sorted list: by the sort
   field and direction, equal values in store order *)
Ahead(a, b, sort) ==
    LET x == catalog[a]
        y == catalog[b]
        less == IF sort.dir = 1 THEN FieldLess(x, y, sort.field)
                ELSE FieldLess(y, x, sort.field)
        more == IF sort.dir = 1 THEN FieldLess(y, x, sort.field)
                ELSE FieldLess(x, y, sort.field)
    IN less \/ (~more /\ a < b)

(* C9: the page holds exactly the items (p-1)*l+1 .. (p-1)*l+l of the
   products that satisfy every supplied predicate, sorted by the compiled
   sort specification *)
PageWindow ==
    ValidWindow =>
        LET matching == {a \in 1..Len(catalog) : Satisfies(catalog[a], search.req)}
            rank(a) == Cardinality({b \in matching : b # a /\ Ahead(b, a, search.sort)})
            skip == (search.currentPage.v - 1) * search.limit.v
            left == Cardinality(matching) - skip
            count == IF left <= 0 THEN 0
                     ELSE IF left < search.limit.v THEN left ELSE search.limit.v
        IN /\ Len(search.products) = count
           /\ \A i \in 1..count :
                 \E a \in matching :
                    /\ rank(a) = skip + i - 1
                    /\ search.products[i] = catalog[a].id

(* 12 matches, page 2 of limit 5: items 6 to 10 of the newest-first list *)
PageWindowWitness ==
    /\ ValidWindow
    /\ search.req = Request(ScenarioFilter, Undefined, Undefined, <<"2">>, <<"5">>)
    /\ search.totalProducts = 12
    /\ search.totalPages = Num(3)
    /\ search.hasNextPage
    /\ search.hasPrevPage
    /\ search.products = <<9, 7, 6, 5, 3>>

(* C10: whatever page and limit are sent, the request is answered and the
   page and limit used and reported are positive integers, a non-numeric
   page being page 1 *)
PageLimitCoerced ==
    (search.op = "search" /\ ~QueryCastFails(BuildQuery(search.req))) =>
        /\ search.status = 200
        /\ search.currentPage.k = "num" /\ search.currentPage.v >= 1
        /\ search.limit.k = "num" /\ search.limit.v >= 1
        /\ (search.req.page # Undefined /\ ParseInt(search.req.page).k = "nan") =>
               search.currentPage = Num(1)

(* C12: a response produced through the reranker, hybrid or
   ai-recommendations, holds at most 10 products whatever identifiers the
   reranker returns *)
ResultCap ==
    (resp.op \in {"hybrid", "ai"} /\ resp.status = 200) => Len(resp.products) <= 10

(* C13: a valid JSON array of candidate ids inside a code fence gives the
   reranker's order, not the fallback order and not an error *)
FencedArrayRanked ==
    (/\ resp.op \in {"hybrid", "ai"}
     /\ resp.text.kind = "array" /\ resp.text.wrap = "fence"
     /\ \A i \in 1..Len(resp.text.ids) :
           /\ IsObjectIdStr(resp.text.ids[i])
           /\ CastObjectId(resp.text.ids[i]) \in
                 (IF resp.op = "hybrid" THEN SeqToSet(resp.candidates)
                  ELSE CatalogIds(catalog)))
    => /\ resp.status = 200
       /\ resp.products = [i \in 1..Len(resp.text.ids) |-> CastObjectId(resp.text.ids[i])]

(* C14: in the endpoints that call the reranker a failed call ends in an
   error without a list, and a received text that cannot be interpreted is
   not answered with an error *)
FailureSemantics ==
    resp.op \in {"hybrid", "ai"} =>
        /\ resp.text = ServiceFailure => (resp.status = 500 /\ resp.products = <<>>)
        /\ resp.text = Garbage => resp.status = 200

(* C15: without a declared hairType the hybrid recommendation proceeds on
   the collaborative source alone and the content-based request answers
   400 without products; an unknown user id is answered 404 by every
   recommendation endpoint *)
MissingHairType ==
    LET known == resp.user \in UserIds(users)
        unset == ~Truthy(FindUser(users, resp.user).hairType)
        usable == \/ NotJson(resp.text)
                  \/ /\ resp.text.kind = "array" /\ resp.text.wrap = "none"
                     /\ \A i \in 1..Len(resp.text.ids) : IsObjectIdStr(resp.text.ids[i])
    IN /\ (resp.op = "hybrid" /\ known /\ unset) =>
             /\ resp.contentBased = <<>>
             /\ resp.candidates = resp.collaborative
             /\ usable => resp.status = 200
       /\ (resp.op = "content-based" /\ known /\ unset) =>
             (resp.status = 400 /\ resp.products = <<>>)
       /\ (resp.op \in {"hybrid", "ai", "collaborative", "content-based"} /\ ~known) =>
             (resp.status = 404 /\ resp.products = <<>>)

(* a hybrid answer built from the collaborative source of a user without
   hairType *)
MissingHairTypeWitness ==
    /\ resp.op = "hybrid"
    /\ resp.user \in UserIds(users)
    /\ ~Truthy(FindUser(users, resp.user).hairType)
    /\ resp.status = 200
    /\ resp.candidates # <<>>
    /\ resp.products # <<>>

(* C17: a requester without purchases gets nothing from the collaborative
   source, whatever the peers have purchased *)
EmptyHistoryNoCandidates ==
    (/\ resp.op \in {"hybrid", "collaborative"}
     /\ resp.user \in UserIds(users)
     /\ FindUser(users, resp.user).purchaseHistory = <<>>)
    => resp.collaborative = <<>>

(* C16: every candidate of the content-based, collaborative and hybrid
   recommendation is a catalog product whose active flag is true *)
ActiveCatalog ==
    (resp.op \in {"content-based", "collaborative", "hybrid"} /\ resp.status = 200) =>
        \A id \in SeqToSet(resp.contentBased) \cup SeqToSet(resp.collaborative)
                    \cup SeqToSet(resp.candidates) :
            /\ id \in CatalogIds(catalog)
            /\ catalog[FindById(catalog, id)].isActive

(* C11: totalProducts and totalPages of a search response describe the
   match set the returned page was taken from: the page holds as many
   products as that total leaves for its window *)
NoDrift ==
    ValidWindow =>
        LET skip == (search.currentPage.v - 1) * search.limit.v
            left == search.totalProducts - skip
            count == IF left <= 0 THEN 0
                     ELSE IF left < search.limit.v THEN left ELSE search.limit.v
        IN /\ Len(search.products) = count
           /\ search.totalPages = MathCeilDiv(search.totalProducts, search.limit)

(* C19: after any cart/add, cart/remove, cart/empty and purchase requests
   every entry of every cart has quantity >= 1 *)
CartQuantities ==
    \A i \in 1..Len(users) :
        \A j \in 1..Len(users[i].cart) : users[i].cart[j].quantity >= 1

(* C20: when no review submission is in flight, each reviewed product's
   reviewCount is the number of its stored reviews and its averageRating is
   their mean rounded to one decimal *)
ReviewStatsDerived ==
    (\A uid \in 1..NumUsers : subs[uid].pc = "idle") =>
        \A i \in 1..Len(catalog) :
            LET stats == AggregateStats(reviews, catalog[i].id)
                diff == catalog[i].averageRating * stats.count - 10 * stats.sum
            IN stats.count > 0 =>
                  /\ catalog[i].reviewCount = stats.count
                  /\ 2 * diff <= stats.count
                  /\ 2 * diff > 0 - stats.count

(* C18: the recommendation, search, suggestion and filter-options requests
   leave every user record, every product record and every review
   unchanged, whether they succeed or fail *)
ReadsLeaveStore ==
    [][catalog' = catalog /\ nextPid' = nextPid /\ users' = users /\ reviews' = reviews]_vars

(* a hybrid answer for a user who has preferences, purchases and a cart *)
ReadsLeaveStoreWitness ==
    /\ resp.op = "hybrid"
    /\ resp.status = 200
    /\ resp.products # <<>>
    /\ FindUser(users, resp.user).cart # <<>>
    /\ FindUser(users, resp.user).purchaseHistory # <<>>
    /\ Truthy(FindUser(users, resp.user).hairType)

(* C21: every product has an average rating from 0 to 5 (0 to 50 tenths),
   a review count of at least 0 and a price of at least 0, whatever bodies
   the create, update, delete and review requests carry *)
ProductInvariant ==
    \A i \in 1..Len(catalog) :
        /\ catalog[i].averageRating \in 0..50
        /\ catalog[i].reviewCount >= 0
        /\ catalog[i].price >= 0

(* C22: a step of the product routes (one that moves no review submission)
   leaves the average rating and the review count of every product that
   stays as they were, and a created product has the defaults *)
DerivedNeverAuthored ==
    [][subs' = subs =>
         \A j \in 1..Len(catalog') :
            LET i == FindById(catalog, catalog'[j].id)
            IN IF i = 0
               THEN catalog'[j].averageRating = 0 /\ catalog'[j].reviewCount = 0
               ELSE /\ catalog'[j].averageRating = catalog[i].averageRating
                    /\ catalog'[j].reviewCount = catalog[i].reviewCount]_vars

(* C23: the cart of a user holds at most one entry for each product id,
   for every interleaving of the user's cart and purchase requests *)
CartIsMapping ==
    \A u \in 1..Len(users) :
        \A i, j \in 1..Len(users[u].cart) :
            users[u].cart[i].productId = users[u].cart[j].productId => i = j

OfType(values, type) == SelectSeq(values, LAMBDA v : v.type = type)

Texts(values) == {values[i].value : i \in 1..Len(values)}

(* C24: a suggestion request without a term, or with a term shorter than 2
   characters, is answered with an empty list whatever the catalog holds;
   an answered request with a longer term lists at most 5 matching product
   names, then at most 3 matching categories, then at most 5 matching
   ingredients, each tagged with its kind *)
SuggestionsShape ==
    search.op = "suggestions" =>
        LET q == search.req.q
            names == OfType(search.values, "product")
            cats == OfType(search.values, "category")
            ings == OfType(search.values, "ingredient")
        IN IF ~Truthy(q) \/ Len(q) < 2
           THEN search.status = 200 /\ search.values = <<>>
                /\ search = SuggestionsResponse(<<>>, q)
           ELSE search.status = 200 =>
                /\ search.values = names \o cats \o ings
                /\ Len(names) <= 5 /\ Len(cats) <= 3 /\ Len(ings) <= 5
                /\ \A t \in Texts(names) :
                      RegexMatchI(q, t) /\ \E i \in 1..Len(catalog) : catalog[i].name = t
                /\ \A t \in Texts(cats) :
                      RegexMatchI(q, t) /\ \E i \in 1..Len(catalog) : catalog[i].category = t
                /\ \A t \in Texts(ings) :
                      RegexMatchI(q, t)
                      /\ \E i \in 1..Len(catalog) : t \in SeqToSet(catalog[i].ingredients)

(* every limit cuts: the catalog holds more matches of each kind than the
   answer lists *)
SuggestionsShapeWitness ==
    /\ search.op = "suggestions"
    /\ search.status = 200
    /\ Len(OfType(search.values, "product")) = 5
    /\ Len(OfType(search.values, "category")) = 3
    /\ Len(OfType(search.values, "ingredient")) = 5
    /\ Cardinality({i \in 1..Len(catalog) : RegexMatchI(search.req.q, catalog[i].name)}) > 5
    /\ Cardinality({catalog[i].category : i \in 1..Len(catalog)}) > 3
    /\ Cardinality(UNION {SeqToSet(catalog[i].ingredients) : i \in 1..Len(catalog)}) > 6

(* the products of the catalog that the items of a body name *)
FoundProducts(items) ==
    {id \in CatalogIds(catalog) : \E i \in 1..Len(items) : items[i].productId = ObjectIdStr(id)}

(* C25: a purchase request that names an unknown product, or one product
   twice, is answered 400; a rejected purchase leaves every user as it was;
   an accepted purchase adds one record per item, in the order of the
   items, after the records the user had, empties the user's cart and
   leaves the other users as they were *)
PurchaseAllOrNothing ==
    [][resp = EmptyResp /\ resp'.op = "purchase" =>
         LET items == resp'.items
             before == FindUser(users, resp'.user)
             after == FindUser(users', resp'.user)
         IN /\ (/\ Len(items) > 0
                 /\ \A i \in 1..Len(items) : IsObjectIdStr(items[i].productId)
                 /\ Cardinality(FoundProducts(items)) # Len(items))
                   => resp'.status = 400
            /\ resp'.status # 200 => users' = users
            /\ resp'.status = 200 =>
                  /\ Len(after.purchaseHistory) = Len(before.purchaseHistory) + Len(items)
                  /\ \A i \in 1..Len(before.purchaseHistory) :
                        after.purchaseHistory[i] = before.purchaseHistory[i]
                  /\ \A i \in 1..Len(items) :
                        LET record == after.purchaseHistory[Len(before.purchaseHistory) + i]
                        IN /\ ObjectIdStr(record.productId) = items[i].productId
                           /\ record.quantity = items[i].quantity
                  /\ after.cart = <<>>
                  /\ \A u \in 1..Len(users) :
                        users[u].id # resp'.user => users'[u] = users[u]]_vars

(* an accepted purchase by a user who had a record before it *)
PurchaseAppendedWitness ==
    /\ resp.op = "purchase"
    /\ resp.status = 200
    /\ Len(FindUser(users, resp.user).purchaseHistory) > Len(resp.items)
    /\ FindUser(users, resp.user).purchaseHistory[1].productId
          # CastObjectId(resp.items[1].productId)

(* C26: the store never holds two reviews of one user for one product,
   also when two submissions of the user pass the existence check before
   either saves; a save that finds the pair stored is answered 400 and
   leaves the reviews as they were *)
OneReviewPerPair ==
    [][/\ \A i, j \in 1..Len(reviews') :
            (reviews'[i].userId = reviews'[j].userId
             /\ reviews'[i].productId = reviews'[j].productId) => i = j
       /\ \A slot \in 1..NumUsers :
            (/\ subs[slot].pc = "checked"
             /\ subs'[slot] # subs[slot]
             /\ \E i \in 1..Len(reviews) :
                    /\ reviews[i].userId = subs[slot].userId
                    /\ reviews[i].productId = subs[slot].productId)
               => subs'[slot].status = 400 /\ reviews' = reviews]_vars

(* the second of two submissions that both passed the check was rejected
   by the save, and the review of the first is the stored one *)
OneReviewPerPairWitness ==
    \E a, b \in 1..NumUsers :
        /\ a # b
        /\ subs[a].pc \in {"saved", "read"}
        /\ subs[b].pc = "idle" /\ subs[b].status = 400
        /\ subs[b].rating \in 1..5
        /\ subs[b].rating # subs[a].rating
        /\ subs[b].userId = subs[a].userId
        /\ subs[b].productId = subs[a].productId
        /\ Len(reviews) = 1
        /\ reviews[1].userId = subs[a].userId
        /\ reviews[1].productId = subs[a].productId
        /\ reviews[1].rating = subs[a].rating

(* C27: a step changes a password only if it is a reset-password request
   carrying a signed password-reset token of that account's email; such a
   token is signed only by a verify-otp request whose OTP is the stored OTP
   of the email, not yet expired; and a successful reset leaves no stored
   OTP for the email *)
ResetOrdering ==
    [][/\ auth'.password # auth.password =>
            LET token == auth'.last.token
            IN /\ auth'.last.op = "reset"
               /\ token \in auth.signed
               /\ token.purpose = "password_reset"
               /\ \A e \in Accounts :
                     e # token.email => auth'.password[e] = auth.password[e]
       /\ \A token \in auth'.signed \ auth.signed :
            token.purpose = "password_reset" =>
               /\ auth'.last.op = "verify"
               /\ auth'.last.email = token.email
               /\ auth.otps[token.email].stored
               /\ auth.otps[token.email].otp = auth'.last.otp
               /\ auth.otps[token.email].expiresAt >= auth.now
       /\ (auth'.last.op = "reset" /\ auth'.last.status = 200) =>
            ~auth'.otps[auth'.last.email].stored]_vars

(* a password was reset some time after the OTP was verified *)
ResetOrderingWitness ==
    /\ auth.last.op = "reset"
    /\ auth.last.status = 200
    /\ auth.password[auth.last.email] # 0
    /\ auth.last.token.exp < auth.now + TokenLifetime
    /\ ~auth.otps[auth.last.email].stored

(* C28: on the routes with the user id in the path, a request whose token
   id is not the path id is answered 403 with nothing of the store in the
   answer, whether or not the path names a user; an answer with
   recommendations is the one computed for the caller *)
OwnRecommendationsOnly ==
    (resp.op \in {"content-based", "collaborative"} /\ resp.caller # 0) =>
        /\ resp.caller # resp.user =>
              /\ resp.status = 403
              /\ resp = [Status(resp.op, resp.user, 403) EXCEPT !.caller = resp.caller]
        /\ resp.status # 403 =>
              /\ resp.user = resp.caller
              /\ resp.products =
                    IF resp.op = "content-based"
                    THEN ContentBasedResponse(catalog, users, resp.caller).products
                    ELSE CollaborativeResponse(catalog, users, resp.caller).products

(* a refused request for the recommendations of a user who has preferences
   and for whom the catalog holds products *)
OwnRecommendationsWitness ==
    /\ resp.op = "content-based"
    /\ resp.status = 403
    /\ resp.caller \in UserIds(users)
    /\ resp.user \in UserIds(users)
    /\ ContentBasedResponse(catalog, users, resp.user).products # <<>>

(* C29: a cart/add request for a product that is in the cart puts the
   requested quantity in that entry and leaves the number, the order and
   the other entries of the cart as they were; the same request made once
   more would leave the cart as the first left it *)
CartAddSets ==
    [][(resp = EmptyResp /\ resp'.op = "cart/add" /\ resp'.status = 200) =>
         LET body == resp'.items[1]
             before == FindUser(users, resp'.user).cart
             after == FindUser(users', resp'.user).cart
         IN /\ (\E i \in 1..Len(before) :
                    ObjectIdStr(before[i].productId) = body.productId) =>
                  /\ Len(after) = Len(before)
                  /\ \A i \in 1..Len(before) :
                        /\ after[i].productId = before[i].productId
                        /\ after[i].quantity =
                              IF ObjectIdStr(before[i].productId) = body.productId
                              THEN body.quantity ELSE before[i].quantity
            /\ \E i \in 1..Len(after) :
                  /\ ObjectIdStr(after[i].productId) = body.productId
                  /\ after[i].quantity = body.quantity
            /\ AddedCart(after, body.productId, body.quantity) = after]_vars

(* the request changed the quantity of the first of two entries: the entry
   was in the cart before the request *)
CartAddSetsWitness ==
    /\ resp.op = "cart/add"
    /\ resp.status = 200
    /\ Len(FindUser(users, resp.user).cart) = 2
    /\ ObjectIdStr(FindUser(users, resp.user).cart[1].productId) = resp.items[1].productId
    /\ FindUser(users, resp.user).cart[1].quantity = -1
    /\ FindUser(users, resp.user).cart[2].quantity = 1

(* the bookings with reminder = true whose date and timeSlot are the date
   and HH:MM, on the clock of the given zone, of the time t *)
DueAt(t, zone) ==
    {i \in 1..Len(reminders.bookings) :
        /\ reminders.bookings[i].reminder
        /\ reminders.bookings[i].date = (t + zone) \div DayMinutes
        /\ reminders.bookings[i].timeSlot = TimeString(t, zone)}

(* C30: a run of the reminder job sends a reminder to exactly the bookings
   with reminder = true whose date and timeSlot are the date and HH:MM of
   the time of the run plus 15 minutes, on the local clock or on the UTC
   clock; no booking with reminder = false is sent a reminder and no
   booking is sent two *)
ReminderSchedule ==
    [][reminders'.now # reminders.now =>
         LET sentNow == {s.booking : s \in reminders'.sent \ reminders.sent}
         IN /\ \E zone \in {0, reminders.zone} :
                  sentNow = DueAt(reminders.now + ReminderLead, zone)
            /\ \A s \in reminders'.sent : reminders.bookings[s.booking].reminder
            /\ \A s1, s2 \in reminders'.sent :
                  s1.booking = s2.booking => s1 = s2]_vars

====
